---- MODULE Spec2Model ----
(***************************************************************************)
(* Model of the emulated local APIC of x86_vlapic: the virtual-APIC        *)
(* register file (src/src/vlapic.rs) and the virtual APIC timer            *)
(* (src/src/timer.rs), driven by guest register writes, clock ticks and    *)
(* the expiry of callbacks held by the external timer service.             *)
(*                                                                         *)
(* A 32-bit register value is the set of its bit positions that are 1, so  *)
(* that u32 `&`, `|` and `!` are intersection, union and complement, and   *)
(* bit 31 is representable.                                                *)
(***************************************************************************)
EXTENDS Integers, FiniteSets, Sequences, TLC

\* ------------------------------------------------------------ u32 values

U32 == 0..31

\* The u32 whose numeric value is n (n < 2^31).
Bits(n) == {i \in 0..30 : (n \div (2^i)) % 2 = 1}

RECURSIVE ToNat(_)
\* The numeric value of a u32 (of one without bit 31: the values counted with
\* in the model are small).
ToNat(v) ==
    IF v = {} THEN 0
    ELSE LET m == CHOOSE i \in v : \A j \in v : j <= i
         IN  2^m + ToNat(v \ {m})

\* tock-registers: the bits a field of NUMBITS n at OFFSET off occupies.
FieldMask(off, n) == off..(off + n - 1)

\* tock-registers `read(FIELD)`: the field's value as a number.
ReadField(v, off, n) == ToNat({i - off : i \in v \cap FieldMask(off, n)})

\* tock-registers `is_set(FIELD)` for a one-bit field.
IsSet(v, bit) == bit \in v

\* ------------------------------------------------------------- constants

APIC_LVT_M == Bits(\h00010000)
APIC_LVT_DS == Bits(\h00001000)
\* A vector field of seven bits.
APIC_LVT_VECTOR_7bit == Bits(\h0000007F)
APIC_LVT_VECTOR == Bits(\h000000FF)
RESET_LVT_REG == APIC_LVT_M
RESET_SPURIOUS_INTERRUPT_VECTOR == Bits(\h000000FF)
XAPIC_BROADCAST_DEST_ID == \hFF

\* SPURIOUS_INTERRUPT_VECTOR::APICSoftwareEnableDisable OFFSET(8) NUMBITS(1)
APICSoftwareEnableDisable == 8
\* LVT_*::Mask OFFSET(16) NUMBITS(1)
LvtMaskBit == 16

\* LVT_TIMER::TimerMode OFFSET(17) NUMBITS(2) and its values
TimerModeMask == FieldMask(17, 2)
TimerModeOf(v) ==
    CASE ReadField(v, 17, 2) = 0 -> "OneShot"
      [] ReadField(v, 17, 2) = 1 -> "Periodic"
      [] ReadField(v, 17, 2) = 2 -> "TSCDeadline"
      [] OTHER -> "Reserved"

\* LVT_LINT0: TriggerMode(15), RemoteIRR(14), InterruptInputPinPolarity(13),
\* DeliveryMode(8..10)
Lint0TriggerModeMask == FieldMask(15, 1)
Lint0RemoteIRRMask == FieldMask(14, 1)
Lint0PolarityMask == FieldMask(13, 1)
Lint0DeliveryModeMask == FieldMask(8, 3)
Lint0ExtINT == Bits(\h700)

\* LVT_LINT1: the same fields as LVT_LINT0 (regs/lvt/lint1.rs).
Lint1FieldsMask == FieldMask(15, 1) \cup FieldMask(14, 1) \cup FieldMask(13, 1)
                   \cup FieldMask(8, 3)

\* LVT_CMCI, LVT_PERFORMANCE_COUNTER, LVT_THERMAL_MONITOR: DeliveryMode(8..10)
CmciDeliveryModeMask == FieldMask(8, 3)
PmcDeliveryModeMask == FieldMask(8, 3)
ThermalDeliveryModeMask == FieldMask(8, 3)

\* ApicTimer::write_lvt LVT_MASK and ApicTimer::write_dcr DCR_MASK
TIMER_LVT_MASK == Bits(\h000710FF)
DCR_MASK == Bits(\b1011)

\* ERROR_STATUS::SendIllegalVector OFFSET(5)
SendIllegalVector == {5}

\* ----------------------------------------------------------------- bounds

\* The last tick the clock reaches.
MaxTicks == 2
\* The number of timers the guest arms in one run.
MaxArms == 2
\* The number of guest writes to the seven LVT registers in one run (the writes
\* to LVT_TIMER that drive the timer are not counted).
MaxLvtWrites == 2

\* ------------------------------------------------------------------ state

VARIABLES
    regs,           \* the virtual-APIC page (LocalAPICRegs)
    vapic_id,       \* VirtualApicRegs fields
    esr_pending,
    esr_firing,
    isrv,
    apic_base,
    svr_last,
    lvt_last,
    virtual_timer,  \* the ApicTimer
    now,            \* the clock of the timer service, in ticks
    timers,         \* callbacks registered with the timer service, not yet run
    next_token,     \* the token the next register_timer returns
    cancelled,      \* the tokens passed to cancel_timer, in order
    injected,       \* what the callbacks passed to inject_interrupt, in order
    active_vcpus,   \* the VM's active vCPUs and their number
    vcpu_num,
    lvt_writes,     \* the guest's counted writes to the LVT registers so far
    last,           \* the last event: the access and what it returned
    panic           \* "" or the unimplemented!/overflow site that ended a handler

vars == <<regs, vapic_id, esr_pending, esr_firing, isrv, apic_base, svr_last,
          lvt_last, virtual_timer, now, timers, next_token, cancelled,
          injected, active_vcpus, vcpu_num, lvt_writes, last, panic>>

\* The register identities (ApicRegOffset); a bank register carries its index.
Off(name) == [name |-> name, index |-> 0]
BankOff(name, i) == [name |-> name, index |-> i]

LvtOffsets == {"LvtCMCI", "LvtTimer", "LvtThermal", "LvtPmc", "LvtLint0",
               "LvtLint1", "LvtErr"}

\* ------------------------------------------------------------- ApicTimer

\* ApicTimer::new
ApicTimer_new ==
    [lvt_timer_register |-> RESET_LVT_REG,
     initial_count_register |-> {},
     divide_configuration_register |-> {},
     divide_shift |-> 1,
     last_start_ticks |-> 0,
     deadline_ns |-> 0,
     cancel_token |-> {}]

\* The timer service's clock conversions (axvisor_api::time): one tick is
\* NanosPerTick nanoseconds.
NanosPerTick == 10
ticks_to_nanos(t) == t * NanosPerTick
nanos_to_ticks(n) == n \div NanosPerTick

timer_read_lvt(t) == t.lvt_timer_register
timer_mode(t) == TimerModeOf(t.lvt_timer_register)
is_masked(t) == IsSet(t.lvt_timer_register, LvtMaskBit)
vector(t) == ReadField(t.lvt_timer_register, 0, 8)
is_periodic(t) == timer_mode(t) = "Periodic"

\* ApicTimer::is_started
is_started(t) == t.initial_count_register # {} /\ t.cancel_token # {}

\* A cancel_timer that leaves the callback registered.
cancel_timer_keeps_callback(s, token) ==
    [s EXCEPT !.cancelled = Append(s.cancelled, token)]

\* time::cancel_timer: the callback of `token`, if still registered, is dropped.
cancel_timer(s, token) ==
    [s EXCEPT !.timers = {c \in s.timers : c.token # token},
              !.cancelled = Append(s.cancelled, token)]

\* register_timer: a one-shot callback at `deadline`, under a fresh token.
register_timer(s, deadline, vec) ==
    [s EXCEPT !.timers = s.timers \cup
                  {[token |-> s.next_token, deadline |-> deadline,
                    vcpu_id |-> s.vapic_id, vector |-> vec]},
              !.next_token = s.next_token + 1,
              !.virtual_timer.cancel_token = {s.next_token}]

\* ApicTimer::stop_timer
stop_timer(s) ==
    IF is_started(s.virtual_timer)
    THEN LET token == CHOOSE k \in s.virtual_timer.cancel_token : TRUE
         IN  cancel_timer([s EXCEPT !.virtual_timer.last_start_ticks = 0,
                                    !.virtual_timer.deadline_ns = 0,
                                    !.virtual_timer.cancel_token = {}],
                          token)
    ELSE s

\* ApicTimer::start_timer
start_timer(s) ==
    IF is_started(s.virtual_timer)
    THEN [s EXCEPT !.ret = "BadState"]
    ELSE LET t == s.virtual_timer
             current_ticks == s.now
             deadline_ticks == current_ticks
                 + ToNat(t.initial_count_register) * (2 ^ t.divide_shift)
         IN  register_timer(
                 [s EXCEPT !.virtual_timer.last_start_ticks = current_ticks,
                           !.virtual_timer.deadline_ns =
                               ticks_to_nanos(deadline_ticks)],
                 deadline_ticks, vector(t))

\* ApicTimer::restart_timer
restart_timer(s) ==
    IF ~is_started(s.virtual_timer) THEN s ELSE start_timer(stop_timer(s))

\* A write_lvt that re-arms a running timer with the new value.
timer_write_lvt_rearms(s, value) ==
    restart_timer(
        [s EXCEPT !.virtual_timer.lvt_timer_register = value \cap TIMER_LVT_MASK])

\* ApicTimer::write_lvt
timer_write_lvt(s, value) ==
    [s EXCEPT !.virtual_timer.lvt_timer_register = value \cap TIMER_LVT_MASK]

\* A write_icr that does not stop the running timer when the count is 0.
timer_write_icr_keeps_callback(s, value) ==
    LET s1 == IF value = {} THEN s ELSE stop_timer(s)
        s2 == [s1 EXCEPT !.virtual_timer.initial_count_register = value]
    IN  IF value # {} THEN start_timer(s2) ELSE s2

\* ApicTimer::write_icr
timer_write_icr(s, value) ==
    LET s1 == stop_timer(s)
        s2 == [s1 EXCEPT !.virtual_timer.initial_count_register = value]
    IN  IF value # {} THEN start_timer(s2) ELSE s2

\* ApicTimer::read_dcr
timer_read_dcr(t) == t.divide_configuration_register

\* A write_dcr that stores the value as written.
timer_write_dcr_unmasked(s, value) ==
    LET v == ToNat(value \cap DCR_MASK)
        shift == CASE v = 0 -> 1 [] v = 1 -> 2 [] v = 2 -> 3 [] v = 3 -> 4
                   [] v = 8 -> 5 [] v = 9 -> 6 [] v = 10 -> 7 [] OTHER -> 0
    IN  [s EXCEPT !.virtual_timer.divide_configuration_register = value,
                  !.virtual_timer.divide_shift = shift]

\* ApicTimer::write_dcr
timer_write_dcr(s, value) ==
    LET v == ToNat(value \cap DCR_MASK)
        known == v \in {0, 1, 2, 3, 8, 9, 10, 11}
        shift == CASE v = 0 -> 1 [] v = 1 -> 2 [] v = 2 -> 3 [] v = 3 -> 4
                   [] v = 8 -> 5 [] v = 9 -> 6 [] v = 10 -> 7 [] OTHER -> 0
    IN  IF ~known THEN [s EXCEPT !.panic = "unreachable"]
        ELSE [s EXCEPT !.virtual_timer.divide_configuration_register =
                           value \cap DCR_MASK,
                       !.virtual_timer.divide_shift = shift]

\* ------------------------------------------------------- VirtualApicRegs

\* An is_x2apic_enabled that reports x2APIC mode while the global enable bit 11
\* of the APIC base is clear.
is_x2apic_enabled_without_base(s) == ~IsSet(s.apic_base, 11)

\* VirtualApicRegs::is_x2apic_enabled / is_xapic_enabled
\* (APIC_BASE::XAPIC_ENABLED is bit 11, X2APIC_Enabled bit 10)
is_x2apic_enabled(s) == IsSet(s.apic_base, 11) /\ IsSet(s.apic_base, 10)
is_xapic_enabled(s) == IsSet(s.apic_base, 11) /\ ~IsSet(s.apic_base, 10)

\* A timer_mode that decodes bit 17 alone, so that 0b10 reads as one-shot.
vlapic_timer_mode_low_bit(s) ==
    IF IsSet(s.regs.LVT_TIMER, 17) THEN "Periodic" ELSE "OneShot"

\* VirtualApicRegs::timer_mode: the mode field of the page's LVT_TIMER
vlapic_timer_mode(s) == TimerModeOf(s.regs.LVT_TIMER)

\* utils::fls32 of a nonzero value
fls32(v) == CHOOSE i \in v : \A j \in v : j <= i

\* VirtualApicRegs::find_isrv
find_isrv(s) ==
    LET banks == {i \in 1..7 : s.regs.ISR[i] # {}}
    IN  IF banks = {} THEN 0
        ELSE LET i == CHOOSE b \in banks : \A c \in banks : c <= b
             IN  i * 32 + fls32(s.regs.ISR[i])

\* prio
prio(x) == (x \div 16) % 16

\* An update_ppr that keeps the low nibble of isrv.
update_ppr_whole_isrv(s) ==
    LET tpr == ToNat(s.regs.TPR)
        ppr == IF prio(tpr) >= prio(s.isrv) THEN s.regs.TPR ELSE Bits(s.isrv)
    IN  [s EXCEPT !.regs.PPR = ppr]

\* VirtualApicRegs::update_ppr
update_ppr(s) ==
    LET tpr == ToNat(s.regs.TPR)
        ppr == IF prio(tpr) >= prio(s.isrv)
               THEN s.regs.TPR
               ELSE Bits(s.isrv) \cap Bits(\hF0)
    IN  [s EXCEPT !.regs.PPR = ppr]

extract_index_u32(v) == v \div 32
extract_bitpos_u32(v) == v % 32

\* A process_eoi without the early return on isrv = 0.
process_eoi_unguarded(s) ==
    LET vec == s.isrv
        idx == extract_index_u32(vec)
        bitpos == extract_bitpos_u32(vec)
        s1 == [s EXCEPT !.regs.ISR[idx] = s.regs.ISR[idx] \ {bitpos}]
        s2 == [s1 EXCEPT !.isrv = find_isrv(s1)]
        s3 == update_ppr(s2)
    IN  IF bitpos \in s3.regs.TMR[idx]
        THEN [s3 EXCEPT !.panic = "vioapic_broadcast_eoi"]
        ELSE [s3 EXCEPT !.panic = "vcpu_make_request"]

\* VirtualApicRegs::process_eoi
process_eoi(s) ==
    LET vec == s.isrv
        idx == extract_index_u32(vec)
        bitpos == extract_bitpos_u32(vec)
        s1 == [s EXCEPT !.regs.ISR[idx] = s.regs.ISR[idx] \ {bitpos}]
        s2 == [s1 EXCEPT !.isrv = find_isrv(s1)]
        s3 == update_ppr(s2)
    IN  IF vec = 0 THEN s
        ELSE IF bitpos \in s3.regs.TMR[idx]
        THEN [s3 EXCEPT !.panic = "vioapic_broadcast_eoi"]
        ELSE [s3 EXCEPT !.panic = "vcpu_make_request"]

\* A set_err that also puts the error bits in the page's ESR.
set_err_writes_page(s, mask) ==
    [s EXCEPT !.esr_pending = s.esr_pending \cup mask, !.esr_firing = 1,
              !.regs.ESR = s.regs.ESR \cup mask]

\* VirtualApicRegs::set_err
set_err(s, mask) ==
    [s EXCEPT !.esr_pending = s.esr_pending \cup mask, !.esr_firing = 1]

\* VirtualApicRegs::is_dest_field_matched: [ret, matched]
is_dest_field_matched(s, dest) ==
    LET ldr == s.regs.LDR
        model == ReadField(s.regs.DFR, 28, 4)
        d == Bits(dest)
    IN  IF is_x2apic_enabled(s) THEN [ret |-> "Ok", matched |-> TRUE]
        ELSE IF model = 15
        THEN [ret |-> "Ok",
              matched |-> Bits(ReadField(ldr, 24, 8)) \cap (d \cap Bits(\hFF)) # {}]
        ELSE IF model = 0
        THEN [ret |-> "Ok",
              matched |-> /\ ReadField(ldr, 28, 4) = ReadField(d, 4, 4)
                          /\ Bits(ReadField(ldr, 24, 4)) \cap (d \cap Bits(\hF)) # {}]
        ELSE [ret |-> "InvalidData", matched |-> FALSE]

\* VirtualApicRegs::calculate_dest_no_shorthand: [ret, panic, dmask].
\* `1 << dest` on a u64 with dest >= 64 panics in a build with overflow checks
\* and shifts by dest % 64 in one without.
calculate_dest_no_shorthand(s, is_broadcast, dest, is_phys, lowprio, overflow_checks) ==
    IF is_broadcast
    THEN [ret |-> "Ok", panic |-> "", dmask |-> s.active_vcpus]
    ELSE IF is_phys
    THEN IF dest >= 64 /\ overflow_checks
         THEN [ret |-> "Ok", panic |-> "shift overflow", dmask |-> {}]
         ELSE [ret |-> "Ok", panic |-> "", dmask |-> {dest % 64}]
    ELSE IF lowprio
    THEN [ret |-> "Ok", panic |-> "lowprio", dmask |-> {}]
    ELSE LET m == is_dest_field_matched(s, dest)
             cand == s.active_vcpus \cap (0..(s.vcpu_num - 1))
         IN  IF cand = {} THEN [ret |-> "Ok", panic |-> "", dmask |-> {}]
             ELSE IF m.ret # "Ok" THEN [ret |-> m.ret, panic |-> "", dmask |-> {}]
             ELSE [ret |-> "Ok", panic |-> "",
                   dmask |-> IF m.matched THEN cand ELSE {}]

\* A calculate_dest whose All-Excluding-Self keeps the issuer.
calculate_dest_keeps_self(s, shorthand, is_broadcast, dest, is_phys, lowprio, overflow_checks) ==
    CASE shorthand = 0 ->
           calculate_dest_no_shorthand(s, is_broadcast, dest, is_phys, lowprio,
                                       overflow_checks)
      [] shorthand = 1 -> [ret |-> "Ok", panic |-> "", dmask |-> {s.vapic_id}]
      [] OTHER -> [ret |-> "Ok", panic |-> "", dmask |-> s.active_vcpus]

\* VirtualApicRegs::calculate_dest
calculate_dest(s, shorthand, is_broadcast, dest, is_phys, lowprio, overflow_checks) ==
    CASE shorthand = 0 ->
           calculate_dest_no_shorthand(s, is_broadcast, dest, is_phys, lowprio,
                                       overflow_checks)
      [] shorthand = 1 -> [ret |-> "Ok", panic |-> "", dmask |-> {s.vapic_id}]
      [] shorthand = 2 -> [ret |-> "Ok", panic |-> "", dmask |-> s.active_vcpus]
      [] OTHER -> [ret |-> "Ok", panic |-> "",
                   dmask |-> s.active_vcpus \ {s.vapic_id}]

\* The ICR delivery modes (INTERRUPT_COMMAND_LOW::DeliveryMode)
DeliveryModeOf(v) ==
    CASE ReadField(v, 8, 3) = 0 -> "Fixed"
      [] ReadField(v, 8, 3) = 1 -> "LowestPriority"
      [] ReadField(v, 8, 3) = 2 -> "SMI"
      [] ReadField(v, 8, 3) = 3 -> "Reserved011"
      [] ReadField(v, 8, 3) = 4 -> "NMI"
      [] ReadField(v, 8, 3) = 5 -> "INIT"
      [] ReadField(v, 8, 3) = 6 -> "StartUp"
      [] OTHER -> "Reserved111"

\* The dispatch loop of write_icr: set_intr, inject_nmi and process_init_sipi
\* are unimplemented!(), so the first selected vCPU ends the handler.
dispatch(s, dmask, mode) ==
    LET sel == dmask \cap (0..(s.vcpu_num - 1))
    IN  IF sel = {} THEN s
        ELSE CASE mode = "Fixed" -> [s EXCEPT !.panic = "set_intr"]
               [] mode = "NMI" -> [s EXCEPT !.panic = "inject_nmi"]
               [] mode \in {"INIT", "StartUp"} ->
                      [s EXCEPT !.panic = "process_init_sipi"]
               [] OTHER -> s

\* A write_icr that records Send Illegal Vector for the shorthand/mode
\* combinations it drops.
write_icr_flags_dropped(s, overflow_checks) ==
    LET s1 == [s EXCEPT !.regs.ICR_LO = s.regs.ICR_LO \ {12}]
        icr_low == s1.regs.ICR_LO
        dest == IF is_x2apic_enabled(s1) THEN ToNat(s1.regs.ICR_HI)
                ELSE ReadField(s1.regs.ICR_HI, 24, 8)
        is_broadcast == IF is_x2apic_enabled(s1) THEN s1.regs.ICR_HI = U32
                        ELSE dest = XAPIC_BROADCAST_DEST_ID
        vec == ReadField(icr_low, 0, 8)
        mode == DeliveryModeOf(icr_low)
        is_phys == IsSet(icr_low, 11)
        shorthand == ReadField(icr_low, 18, 2)
        d == calculate_dest(s1, shorthand, is_broadcast, dest, is_phys, FALSE,
                            overflow_checks)
    IN  IF mode = "Fixed" /\ vec < 16 THEN set_err(s1, SendIllegalVector)
        ELSE IF shorthand \in {1, 2} /\ mode \in {"NMI", "INIT", "StartUp"}
        THEN set_err(s1, SendIllegalVector)
        ELSE IF d.panic # "" THEN [s1 EXCEPT !.panic = d.panic]
        ELSE IF d.ret # "Ok" THEN [s1 EXCEPT !.ret = d.ret]
        ELSE dispatch([s1 EXCEPT !.dmask = d.dmask], d.dmask, mode)

\* VirtualApicRegs::write_icr
write_icr(s, overflow_checks) ==
    LET s1 == [s EXCEPT !.regs.ICR_LO = s.regs.ICR_LO \ {12}]
        icr_low == s1.regs.ICR_LO
        dest == IF is_x2apic_enabled(s1) THEN ToNat(s1.regs.ICR_HI)
                ELSE ReadField(s1.regs.ICR_HI, 24, 8)
        is_broadcast == IF is_x2apic_enabled(s1) THEN s1.regs.ICR_HI = U32
                        ELSE dest = XAPIC_BROADCAST_DEST_ID
        vec == ReadField(icr_low, 0, 8)
        mode == DeliveryModeOf(icr_low)
        is_phys == IsSet(icr_low, 11)
        shorthand == ReadField(icr_low, 18, 2)
        d == calculate_dest(s1, shorthand, is_broadcast, dest, is_phys, FALSE,
                            overflow_checks)
    IN  IF mode = "Fixed" /\ vec < 16 THEN set_err(s1, SendIllegalVector)
        ELSE IF shorthand \in {1, 2} /\ mode \in {"NMI", "INIT", "StartUp"} THEN s1
        ELSE IF d.panic # "" THEN [s1 EXCEPT !.panic = d.panic]
        ELSE IF d.ret # "Ok" THEN [s1 EXCEPT !.ret = d.ret]
        ELSE dispatch([s1 EXCEPT !.dmask = d.dmask], d.dmask, mode)

\* A write_ldr that keeps the reserved low 24 bits.
write_ldr_keeps_reserved(s) == s

\* VirtualApicRegs::write_ldr
write_ldr(s) == [s EXCEPT !.regs.LDR = s.regs.LDR \ Bits(\h00FFFFFF)]

\* VirtualApicRegs::write_dfr
write_dfr(s) ==
    [s EXCEPT !.regs.DFR = (s.regs.DFR \cap FieldMask(28, 4)) \cup Bits(\h0FFFFFFF)]

\* A write_esr that adds the pending bits to what the guest wrote.
write_esr_accumulates(s) ==
    [s EXCEPT !.regs.ESR = s.regs.ESR \cup s.esr_pending, !.esr_pending = {}]

\* VirtualApicRegs::write_esr
write_esr(s) == [s EXCEPT !.regs.ESR = s.esr_pending, !.esr_pending = {}]

\* VirtualApicRegs::extract_lvt_val
extract_lvt_val(s, offset) ==
    CASE offset.name = "LvtCMCI" -> s.regs.LVT_CMCI
      [] offset.name = "LvtTimer" -> s.regs.LVT_TIMER
      [] offset.name = "LvtThermal" -> s.regs.LVT_THERMAL
      [] offset.name = "LvtPmc" -> s.regs.LVT_PMI
      [] offset.name = "LvtLint0" -> s.regs.LVT_LINT0
      [] offset.name = "LvtLint1" -> s.regs.LVT_LINT1
      [] offset.name = "LvtErr" -> s.regs.LVT_ERROR
      [] OTHER -> {}

\* The condition under which write_lvt forces the mask bit.
lvt_force_mask(s) == IsSet(s.regs.SVR, APICSoftwareEnableDisable)

\* VirtualApicRegs::write_lvt
write_lvt(s, offset) ==
    LET val0 == extract_lvt_val(s, offset)
        val1 == IF lvt_force_mask(s) THEN val0 \cup APIC_LVT_M ELSE val0
        mask == APIC_LVT_M \cup APIC_LVT_DS \cup APIC_LVT_VECTOR
        lint0 == mask \cup Lint0TriggerModeMask \cup Lint0RemoteIRRMask
                      \cup Lint0PolarityMask \cup Lint0DeliveryModeMask
    IN  CASE offset.name = "LvtTimer" ->
               LET val == val1 \cap (mask \cup TimerModeMask)
               IN  timer_write_lvt([s EXCEPT !.regs.LVT_TIMER = val,
                                             !.lvt_last.lvt_timer = val], val)
          [] offset.name = "LvtErr" ->
               [s EXCEPT !.regs.LVT_ERROR = val1 \cap mask,
                         !.lvt_last.lvt_err = val1 \cap mask]
          [] offset.name = "LvtLint0" ->
               [s EXCEPT !.regs.LVT_LINT0 = val1 \cap lint0,
                         !.lvt_last.lvt_lint0 = val1 \cap lint0]
          [] offset.name = "LvtLint1" ->
               [s EXCEPT !.regs.LVT_LINT1 = val1 \cap (mask \cup Lint1FieldsMask),
                         !.lvt_last.lvt_lint1 = val1 \cap (mask \cup Lint1FieldsMask)]
          [] offset.name = "LvtCMCI" ->
               [s EXCEPT !.regs.LVT_CMCI = val1 \cap (mask \cup CmciDeliveryModeMask),
                         !.lvt_last.lvt_cmci = val1 \cap (mask \cup CmciDeliveryModeMask)]
          [] offset.name = "LvtPmc" ->
               [s EXCEPT !.regs.LVT_PMI = val1 \cap (mask \cup PmcDeliveryModeMask),
                         !.lvt_last.lvt_perf_count =
                             val1 \cap (mask \cup PmcDeliveryModeMask)]
          [] offset.name = "LvtThermal" ->
               [s EXCEPT !.regs.LVT_THERMAL =
                             val1 \cap (mask \cup ThermalDeliveryModeMask),
                         !.lvt_last.lvt_thermal =
                             val1 \cap (mask \cup ThermalDeliveryModeMask)]
          [] OTHER -> [s EXCEPT !.ret = "InvalidInput"]

\* A mask_lvts that leaves LVT_ERROR alone.
mask_lvts_skips_error(s) ==
    LET s1 == write_lvt([s EXCEPT !.regs.LVT_CMCI = @ \cup APIC_LVT_M],
                        Off("LvtCMCI"))
        s2 == write_lvt([s1 EXCEPT !.regs.LVT_TIMER = @ \cup APIC_LVT_M],
                        Off("LvtTimer"))
        s3 == write_lvt([s2 EXCEPT !.regs.LVT_THERMAL = @ \cup APIC_LVT_M],
                        Off("LvtThermal"))
        s4 == write_lvt([s3 EXCEPT !.regs.LVT_PMI = @ \cup APIC_LVT_M],
                        Off("LvtPmc"))
        s5 == write_lvt([s4 EXCEPT !.regs.LVT_LINT0 = @ \cup APIC_LVT_M],
                        Off("LvtLint0"))
    IN  write_lvt([s5 EXCEPT !.regs.LVT_LINT1 = @ \cup APIC_LVT_M],
                  Off("LvtLint1"))

\* VirtualApicRegs::mask_lvts
mask_lvts(s) ==
    LET s1 == write_lvt([s EXCEPT !.regs.LVT_CMCI = @ \cup APIC_LVT_M],
                        Off("LvtCMCI"))
        s2 == write_lvt([s1 EXCEPT !.regs.LVT_TIMER = @ \cup APIC_LVT_M],
                        Off("LvtTimer"))
        s3 == write_lvt([s2 EXCEPT !.regs.LVT_THERMAL = @ \cup APIC_LVT_M],
                        Off("LvtThermal"))
        s4 == write_lvt([s3 EXCEPT !.regs.LVT_PMI = @ \cup APIC_LVT_M],
                        Off("LvtPmc"))
        s5 == write_lvt([s4 EXCEPT !.regs.LVT_LINT0 = @ \cup APIC_LVT_M],
                        Off("LvtLint0"))
        s6 == write_lvt([s5 EXCEPT !.regs.LVT_LINT1 = @ \cup APIC_LVT_M],
                        Off("LvtLint1"))
    IN  write_lvt([s6 EXCEPT !.regs.LVT_ERROR = @ \cup APIC_LVT_M],
                  Off("LvtErr"))

\* VirtualApicRegs::write_svr
write_svr(s) ==
    LET new == s.regs.SVR
        old == s.svr_last
        s1 == [s EXCEPT !.svr_last = new]
    IN  IF IsSet(old, APICSoftwareEnableDisable)
           /\ ~IsSet(new, APICSoftwareEnableDisable)
        THEN mask_lvts(stop_timer(s1))
        ELSE IF ~IsSet(old, APICSoftwareEnableDisable)
                /\ IsSet(new, APICSoftwareEnableDisable)
        THEN IF is_periodic(s1.virtual_timer) THEN restart_timer(s1) ELSE s1
        ELSE s1

\* VirtualApicRegs::write_icrtmr, write_dcr
write_icrtmr(s) == timer_write_icr(s, s.regs.ICR_TIMER)
write_dcr(s) == timer_write_dcr(s, s.regs.DCR_TIMER)

\* ApicTimer::read_ccr at clock reading time_ns: the count, or `wrapped` when
\* deadline_ns.wrapping_sub(time_ns) wrapped around 2^64.
read_ccr(t, time_ns) ==
    IF ~is_started(t) THEN [wrapped |-> FALSE, value |-> 0]
    ELSE IF t.deadline_ns < time_ns THEN [wrapped |-> TRUE, value |-> 0]
    ELSE [wrapped |-> FALSE,
          value |-> nanos_to_ticks(t.deadline_ns - time_ns) \div (2 ^ t.divide_shift)]

\* VirtualApicRegs::handle_read: [ret, value, wrapped]
handle_read(s, offset, width) ==
    LET ok(v) == [ret |-> "Ok", value |-> v, wrapped |-> FALSE]
        n == offset.name
    IN  CASE n = "ID" -> ok(s.regs.ID)
          [] n = "Version" -> ok(s.regs.VERSION)
          [] n = "TPR" -> ok(s.regs.TPR)
          [] n = "PPR" -> ok(s.regs.PPR)
          [] n = "EOI" -> ok({})
          [] n = "LDR" -> ok(s.regs.LDR)
          [] n = "DFR" -> ok(s.regs.DFR)
          [] n = "SIVR" -> ok(s.regs.SVR)
          [] n = "ISR" -> ok(s.regs.ISR[offset.index])
          [] n = "TMR" -> ok(s.regs.TMR[offset.index])
          [] n = "IRR" -> ok(s.regs.IRR[offset.index])
          [] n = "ESR" -> ok(s.regs.ESR)
          [] n = "ICRLow" ->
               IF is_x2apic_enabled(s) /\ width = "Qword"
               THEN ok(s.regs.ICR_LO \cup {i + 32 : i \in s.regs.ICR_HI})
               ELSE IF is_x2apic_enabled(s) # (width = "Qword")
               THEN [ret |-> "InvalidInput", value |-> {}, wrapped |-> FALSE]
               ELSE ok(s.regs.ICR_LO)
          [] n = "ICRHi" -> ok(s.regs.ICR_HI)
          [] n = "LvtCMCI" -> ok(s.lvt_last.lvt_cmci)
          [] n = "LvtTimer" -> ok(s.lvt_last.lvt_timer)
          [] n = "LvtThermal" -> ok(s.lvt_last.lvt_thermal)
          [] n = "LvtPmc" -> ok(s.lvt_last.lvt_perf_count)
          [] n = "LvtLint0" -> ok(s.lvt_last.lvt_lint0)
          [] n = "LvtLint1" -> ok(s.lvt_last.lvt_lint1)
          [] n = "LvtErr" -> ok(s.lvt_last.lvt_err)
          [] n = "TimerInitCount" ->
               IF vlapic_timer_mode(s) \in {"OneShot", "Periodic"}
               THEN ok(s.regs.ICR_TIMER) ELSE ok({})
          [] n = "TimerCurCount" ->
               LET c == read_ccr(s.virtual_timer, ticks_to_nanos(s.now))
               IN  [ret |-> "Ok", value |-> Bits(c.value), wrapped |-> c.wrapped]
          [] n = "TimerDivConf" -> ok(s.regs.DCR_TIMER)
          [] OTHER -> ok({})

\* A handle_write that accepts a write to an unsupported register.
write_unsupported_accepts(s) == s

\* handle_write on a register it does not support (and on SelfIPI outside
\* x2APIC mode): the write is refused, nothing is stored.
write_unsupported(s) == [s EXCEPT !.ret = "InvalidInput"]

\* A handle_write whose ID arm stores the value written.
write_id_stores(s, data32) == [s EXCEPT !.regs.ID = data32]

\* handle_write on the ID register: the store is commented out, the APIC ID is
\* read-only.
write_id(s, data32) == s

\* VirtualApicRegs::handle_write. `val` is the usize written (bits 0..63).
handle_write(s, offset, val, width, overflow_checks) ==
    LET data32 == val \cap U32
        n == offset.name
    IN  CASE n = "ID" -> write_id(s, data32)
          [] n = "EOI" -> process_eoi(s)
          [] n = "LDR" -> write_ldr([s EXCEPT !.regs.LDR = data32])
          [] n = "DFR" -> write_dfr([s EXCEPT !.regs.DFR = data32])
          [] n = "SIVR" -> write_svr([s EXCEPT !.regs.SVR = data32])
          [] n = "ESR" -> write_esr([s EXCEPT !.regs.ESR = data32])
          [] n = "ICRLow" ->
               IF is_x2apic_enabled(s) /\ width = "Qword"
               THEN write_icr([s EXCEPT !.regs.ICR_HI =
                                            {i - 32 : i \in val \ U32},
                                        !.regs.ICR_LO = data32],
                              overflow_checks)
               ELSE IF is_x2apic_enabled(s) # (width = "Qword")
               THEN [s EXCEPT !.ret = "InvalidInput"]
               ELSE write_icr([s EXCEPT !.regs.ICR_LO = data32], overflow_checks)
          [] n = "LvtCMCI" -> write_lvt([s EXCEPT !.regs.LVT_CMCI = data32], offset)
          [] n = "LvtTimer" -> write_lvt([s EXCEPT !.regs.LVT_TIMER = data32], offset)
          [] n = "LvtThermal" ->
               write_lvt([s EXCEPT !.regs.LVT_THERMAL = data32], offset)
          [] n = "LvtPmc" -> write_lvt([s EXCEPT !.regs.LVT_PMI = data32], offset)
          [] n = "LvtLint0" -> write_lvt([s EXCEPT !.regs.LVT_LINT0 = data32], offset)
          [] n = "LvtLint1" -> write_lvt([s EXCEPT !.regs.LVT_LINT1 = data32], offset)
          [] n = "LvtErr" -> write_lvt([s EXCEPT !.regs.LVT_ERROR = data32], offset)
          [] n = "TimerInitCount" ->
               IF vlapic_timer_mode(s) = "Reserved"
               THEN [s EXCEPT !.ret = "InvalidData"]
               ELSE IF vlapic_timer_mode(s) = "TSCDeadline" THEN s
               ELSE write_icrtmr([s EXCEPT !.regs.ICR_TIMER = data32])
          [] n = "TimerDivConf" -> write_dcr([s EXCEPT !.regs.DCR_TIMER = data32])
          [] n = "SelfIPI" ->
               IF is_x2apic_enabled(s)
               THEN [s EXCEPT !.regs.SELF_IPI = data32, !.panic = "handle_self_ipi"]
               ELSE write_unsupported(s)
          [] OTHER -> write_unsupported(s)

\* ---------------------------------------------------------------- decoding

\* xapic::DEFAULT_APIC_BASE (0xFEE0_0000, as its bits), xapic::APIC_MMIO_SIZE,
\* x2apic::X2APIC_MSE_REG_BASE, x2apic::X2APIC_MSE_REG_SIZE
DEFAULT_APIC_BASE == (25..31) \cup (21..23)
APIC_MMIO_SIZE == \h1000
X2APIC_MSE_REG_BASE == \h800
X2APIC_MSE_REG_SIZE == \h100

\* An ApicRegOffset::from that decodes 0x31 to ICRLow as well.
ApicRegOffset_from_icr_alias(value) ==
    CASE value = \h2 -> Off("ID")
      [] value = \h3 -> Off("Version")
      [] value = \h8 -> Off("TPR")
      [] value = \h9 -> Off("APR")
      [] value = \hA -> Off("PPR")
      [] value = \hB -> Off("EOI")
      [] value = \hC -> Off("RRR")
      [] value = \hD -> Off("LDR")
      [] value = \hE -> Off("DFR")
      [] value = \hF -> Off("SIVR")
      [] value \in \h10..\h17 -> BankOff("ISR", value - \h10)
      [] value \in \h18..\h1F -> BankOff("TMR", value - \h18)
      [] value \in \h20..\h27 -> BankOff("IRR", value - \h20)
      [] value = \h28 -> Off("ESR")
      [] value = \h2F -> Off("LvtCMCI")
      [] value \in {\h30, \h31} -> Off("ICRLow")
      [] value = \h32 -> Off("LvtTimer")
      [] value = \h33 -> Off("LvtThermal")
      [] value = \h34 -> Off("LvtPmc")
      [] value = \h35 -> Off("LvtLint0")
      [] value = \h36 -> Off("LvtLint1")
      [] value = \h37 -> Off("LvtErr")
      [] value = \h38 -> Off("TimerInitCount")
      [] value = \h39 -> Off("TimerCurCount")
      [] value = \h3E -> Off("TimerDivConf")
      [] value = \h3F -> Off("SelfIPI")
      [] OTHER -> Off("panic")

\* ApicRegOffset::from (with ISRIndex::from, TMRIndex::from, IRRIndex::from):
\* the identity of a register index, or "panic" where the match ends in
\* panic!("Invalid APIC register offset").
ApicRegOffset_from(value) ==
    CASE value = \h2 -> Off("ID")
      [] value = \h3 -> Off("Version")
      [] value = \h8 -> Off("TPR")
      [] value = \h9 -> Off("APR")
      [] value = \hA -> Off("PPR")
      [] value = \hB -> Off("EOI")
      [] value = \hC -> Off("RRR")
      [] value = \hD -> Off("LDR")
      [] value = \hE -> Off("DFR")
      [] value = \hF -> Off("SIVR")
      [] value \in \h10..\h17 -> BankOff("ISR", value - \h10)
      [] value \in \h18..\h1F -> BankOff("TMR", value - \h18)
      [] value \in \h20..\h27 -> BankOff("IRR", value - \h20)
      [] value = \h28 -> Off("ESR")
      [] value = \h2F -> Off("LvtCMCI")
      [] value = \h30 -> Off("ICRLow")
      [] value = \h31 -> Off("ICRHi")
      [] value = \h32 -> Off("LvtTimer")
      [] value = \h33 -> Off("LvtThermal")
      [] value = \h34 -> Off("LvtPmc")
      [] value = \h35 -> Off("LvtLint0")
      [] value = \h36 -> Off("LvtLint1")
      [] value = \h37 -> Off("LvtErr")
      [] value = \h38 -> Off("TimerInitCount")
      [] value = \h39 -> Off("TimerCurCount")
      [] value = \h3E -> Off("TimerDivConf")
      [] value = \h3F -> Off("SelfIPI")
      [] OTHER -> Off("panic")

\* xapic::xapic_mmio_access_reg_offset: (addr & (APIC_MMIO_SIZE - 1)) >> 4.
\* `addr` is the guest-physical address as its bits.
xapic_mmio_access_reg_offset(addr) ==
    ApicRegOffset_from(
        ToNat({i - 4 : i \in (addr \cap Bits(APIC_MMIO_SIZE - 1)) \ (0..3)}))

\* x2apic::x2apic_msr_access_reg: addr - X2APIC_MSE_REG_BASE. `addr` is the MSR
\* number as its bits.
x2apic_msr_access_reg(addr) == ApicRegOffset_from(ToNat(addr) - X2APIC_MSE_REG_BASE)

\* ---------------------------------------------------------- construction

\* PhysFrame::alloc_zero: every register of the page is 0.
ZeroPage ==
    [ID |-> {}, VERSION |-> {}, TPR |-> {}, PPR |-> {}, LDR |-> {}, DFR |-> {},
     SVR |-> {}, ISR |-> [i \in 0..7 |-> {}], TMR |-> [i \in 0..7 |-> {}],
     IRR |-> [i \in 0..7 |-> {}], ESR |-> {}, LVT_CMCI |-> {}, ICR_LO |-> {},
     ICR_HI |-> {}, LVT_TIMER |-> {}, LVT_THERMAL |-> {}, LVT_PMI |-> {},
     LVT_LINT0 |-> {}, LVT_LINT1 |-> {}, LVT_ERROR |-> {}, ICR_TIMER |-> {},
     DCR_TIMER |-> {}, SELF_IPI |-> {}]

\* LocalVectorTable::default
LocalVectorTable_default ==
    [lvt_cmci |-> RESET_LVT_REG, lvt_timer |-> RESET_LVT_REG,
     lvt_thermal |-> RESET_LVT_REG, lvt_perf_count |-> RESET_LVT_REG,
     lvt_lint0 |-> RESET_LVT_REG, lvt_lint1 |-> RESET_LVT_REG,
     lvt_err |-> RESET_LVT_REG]

\* No event yet.
NoEvent ==
    [op |-> "new", via |-> "reg", addr |-> {}, offset |-> Off("ID"), val |-> {},
     width |-> "Dword", ret |-> "Ok", dmask |-> {}, was_enabled |-> FALSE, was_started |-> FALSE,
     old_isrv |-> 0, old_ESR |-> {}, old_esr_pending |-> {}]

\* The environment: the VM has NumVcpus vCPUs, of which ActiveVcpus are active;
\* this vLAPIC is that of vCPU 0.
NumVcpus == 3
ActiveVcpus == {0, 1}

\* VirtualApicRegs::new
Init ==
    /\ regs = ZeroPage
    /\ vapic_id = 0
    /\ esr_pending = {}
    /\ esr_firing = 0
    /\ isrv = 0
    /\ apic_base = {}
    /\ svr_last = RESET_SPURIOUS_INTERRUPT_VECTOR
    /\ lvt_last = LocalVectorTable_default
    /\ virtual_timer = ApicTimer_new
    /\ now = 0
    /\ timers = {}
    /\ next_token = 0
    /\ cancelled = <<>>
    /\ injected = <<>>
    /\ active_vcpus = ActiveVcpus
    /\ vcpu_num = NumVcpus
    /\ lvt_writes = 0
    /\ last = NoEvent
    /\ panic = ""

\* ---------------------------------------------------------------- events

\* The state a handler runs on.
Cur ==
    [regs |-> regs, vapic_id |-> vapic_id, esr_pending |-> esr_pending,
     esr_firing |-> esr_firing, isrv |-> isrv, apic_base |-> apic_base,
     svr_last |-> svr_last, lvt_last |-> lvt_last,
     virtual_timer |-> virtual_timer, now |-> now, timers |-> timers,
     next_token |-> next_token, cancelled |-> cancelled,
     active_vcpus |-> active_vcpus, vcpu_num |-> vcpu_num,
     ret |-> "Ok", panic |-> "", dmask |-> {}]

\* The state a handler leaves.
Commit(s) ==
    /\ regs' = s.regs
    /\ esr_pending' = s.esr_pending
    /\ esr_firing' = s.esr_firing
    /\ isrv' = s.isrv
    /\ svr_last' = s.svr_last
    /\ lvt_last' = s.lvt_last
    /\ virtual_timer' = s.virtual_timer
    /\ timers' = s.timers
    /\ next_token' = s.next_token
    /\ cancelled' = s.cancelled
    /\ panic' = s.panic
    /\ UNCHANGED <<vapic_id, apic_base, now, injected, active_vcpus, vcpu_num>>

\* A guest write of val to the register `offset`, at the given width, that
\* arrived through `via` at `addr`: VirtualApicRegs::handle_write.
RegWrite(via, addr, offset, val, width, overflow_checks) ==
    LET s == handle_write(Cur, offset, val, width, overflow_checks)
    IN  /\ panic = ""
        /\ Commit(s)
        /\ last' = [op |-> "write", via |-> via, addr |-> addr,
                    offset |-> offset, val |-> val,
                    width |-> width, ret |-> s.ret, dmask |-> s.dmask,
                    was_enabled |-> IsSet(regs.SVR, APICSoftwareEnableDisable),
                    was_started |-> is_started(virtual_timer),
                    old_isrv |-> isrv, old_ESR |-> regs.ESR,
                    old_esr_pending |-> esr_pending]

\* A guest write of val to offset, at the given width: handle_write.
GuestWrite(offset, val, width, overflow_checks) ==
    RegWrite("reg", {}, offset, val, width, overflow_checks)

\* A handle_read that takes the pending errors when it is asked for ESR.
RegReadTakesErrors(via, addr, offset, width) ==
    LET r == handle_read(Cur, offset, width)
    IN  /\ panic = ""
        /\ last' = [NoEvent EXCEPT !.op = "read", !.via = via, !.addr = addr,
                                   !.offset = offset, !.width = width,
                                   !.ret = r.ret, !.val = r.value]
        /\ esr_pending' = IF offset.name = "ESR" THEN {} ELSE esr_pending
        /\ UNCHANGED <<regs, vapic_id, esr_firing, isrv, apic_base,
                       svr_last, lvt_last, virtual_timer, now, timers,
                       next_token, cancelled, injected, active_vcpus, vcpu_num,
                       lvt_writes, panic>>

\* A guest read of the register `offset` that arrived through `via` at `addr`:
\* VirtualApicRegs::handle_read, which takes &self.
RegRead(via, addr, offset, width) ==
    LET r == handle_read(Cur, offset, width)
    IN  /\ panic = ""
        /\ last' = [NoEvent EXCEPT !.op = "read", !.via = via, !.addr = addr,
                                   !.offset = offset, !.width = width,
                                   !.ret = r.ret, !.val = r.value]
        /\ UNCHANGED <<regs, vapic_id, esr_pending, esr_firing, isrv, apic_base,
                       svr_last, lvt_last, virtual_timer, now, timers,
                       next_token, cancelled, injected, active_vcpus, vcpu_num,
                       lvt_writes, panic>>

\* An access whose address decodes to no register: ApicRegOffset::from panics
\* before either handler runs.
DecodePanic(op, via, addr) ==
    /\ panic = ""
    /\ panic' = "Invalid APIC register offset"
    /\ last' = [NoEvent EXCEPT !.op = op, !.via = via, !.addr = addr,
                               !.offset = Off("panic"), !.ret = "none"]
    /\ UNCHANGED <<regs, vapic_id, esr_pending, esr_firing, isrv, apic_base,
                   svr_last, lvt_last, virtual_timer, now, timers, next_token,
                   cancelled, injected, active_vcpus, vcpu_num, lvt_writes>>

\* EmulatedLocalApic::handle_read and ::handle_write of the MMIO device
\* (BaseDeviceOps<AddrRange<GuestPhysAddr>>).
mmio_handle_read(addr, width) ==
    LET reg_off == xapic_mmio_access_reg_offset(addr)
    IN  IF reg_off.name = "panic" THEN DecodePanic("read", "mmio", addr)
        ELSE RegRead("mmio", addr, reg_off, width)

mmio_handle_write(addr, width, val) ==
    LET reg_off == xapic_mmio_access_reg_offset(addr)
    IN  IF reg_off.name = "panic" THEN DecodePanic("write", "mmio", addr)
        ELSE RegWrite("mmio", addr, reg_off, val, width, FALSE)
             /\ UNCHANGED lvt_writes

\* EmulatedLocalApic::handle_read and ::handle_write of the MSR device
\* (BaseDeviceOps<SysRegAddrRange>).
msr_handle_read(addr, width) ==
    LET reg_off == x2apic_msr_access_reg(addr)
    IN  IF reg_off.name = "panic" THEN DecodePanic("read", "msr", addr)
        ELSE RegRead("msr", addr, reg_off, width)

msr_handle_write(addr, width, val) ==
    LET reg_off == x2apic_msr_access_reg(addr)
    IN  IF reg_off.name = "panic" THEN DecodePanic("write", "msr", addr)
        ELSE RegWrite("msr", addr, reg_off, val, width, FALSE)
             /\ UNCHANGED lvt_writes

\* The values the guest writes.
LvtTimerVals == {Bits(\h30), Bits(\h20031), Bits(\h40030), U32}
LvtVals == {Bits(\h10000), Bits(\h750), U32}
SvrVals == {Bits(\hFF), Bits(\h1FF)}
IcrTimerVals == {{}, Bits(1)}
DcrVals == {Bits(\b1011), U32 \ {0, 1, 3}}
IcrLoVals == {Bits(\h05), Bits(\h40005), Bits(\hC1005), Bits(\h80F),
              Bits(\h830), Bits(\h44400), Bits(\h200)}
\* IPIs by shorthand, destination mode and delivery mode: Fixed with vector
\* 0x30 (none/physical bit 0 and 1, self, all, all-but-self), and NMI, INIT and
\* Start-Up with self, all and all-but-self.
IpiVals == {Bits(\h30), Bits(\h830), Bits(\h40030), Bits(\h80030), Bits(\hC0030),
            Bits(\h44400), Bits(\h80500), Bits(\h40600), Bits(\hC0400),
            Bits(\hC0500)}
EsrVals == {{}, U32}
LdrVals == {Bits(\h01000001), U32}
DfrVals == {{}, U32, Bits(\h50000000)}
Widths == {"Dword", "Qword"}
UnsupportedOffsets ==
    {Off("Version"), Off("TPR"), Off("APR"), Off("PPR"), Off("RRR"),
     Off("ICRHi"), Off("TimerCurCount"), Off("SelfIPI")}
    \cup {BankOff(b, i) : b \in {"ISR", "TMR", "IRR"}, i \in {0, 7}}

WriteLvtTimer ==
    \E val \in LvtTimerVals :
        GuestWrite(Off("LvtTimer"), val, "Dword", FALSE) /\ UNCHANGED lvt_writes

WriteLvt ==
    /\ lvt_writes < MaxLvtWrites
    /\ lvt_writes' = lvt_writes + 1
    /\ \E n \in LvtOffsets, val \in LvtVals :
           GuestWrite(Off(n), val, "Dword", FALSE)

WriteSvr ==
    \E val \in SvrVals :
        /\ handle_write(Cur, Off("SIVR"), val, "Dword", FALSE).next_token <= MaxArms
        /\ GuestWrite(Off("SIVR"), val, "Dword", FALSE)
        /\ UNCHANGED lvt_writes

WriteIcrTimer ==
    \E val \in IcrTimerVals :
        /\ handle_write(Cur, Off("TimerInitCount"), val, "Dword", FALSE).next_token
               <= MaxArms
        /\ GuestWrite(Off("TimerInitCount"), val, "Dword", FALSE)
        /\ UNCHANGED lvt_writes

WriteDcr ==
    \E val \in DcrVals :
        GuestWrite(Off("TimerDivConf"), val, "Dword", FALSE) /\ UNCHANGED lvt_writes

WriteIcr ==
    \E val \in IcrLoVals, width \in Widths, overflow_checks \in BOOLEAN :
        GuestWrite(Off("ICRLow"), val, width, overflow_checks)
        /\ UNCHANGED lvt_writes

\* A 4-byte ICR_LO write that sends an IPI.
SendIpi ==
    \E val \in IpiVals, overflow_checks \in BOOLEAN :
        GuestWrite(Off("ICRLow"), val, "Dword", overflow_checks)
        /\ UNCHANGED lvt_writes

\* A guest write at a width other than 4 bytes (AccessWidth::Word, ::Qword).
WideWidths == {"Word", "Qword"}
WideOffsets == {Off("SIVR"), Off("ESR"), Off("LDR"), Off("LvtLint0"),
                Off("ICRLow"), Off("TimerDivConf")}
WriteWide ==
    \E offset \in WideOffsets, width \in WideWidths :
        /\ handle_write(Cur, offset, Bits(\h1FF), width, FALSE).next_token <= MaxArms
        /\ GuestWrite(offset, Bits(\h1FF), width, FALSE)
        /\ UNCHANGED lvt_writes

WriteEsr ==
    \E val \in EsrVals :
        GuestWrite(Off("ESR"), val, "Dword", FALSE) /\ UNCHANGED lvt_writes

WriteLdr ==
    \E val \in LdrVals :
        GuestWrite(Off("LDR"), val, "Dword", FALSE) /\ UNCHANGED lvt_writes

WriteDfr ==
    \E val \in DfrVals :
        GuestWrite(Off("DFR"), val, "Dword", FALSE) /\ UNCHANGED lvt_writes

WriteEoi == GuestWrite(Off("EOI"), {}, "Dword", FALSE) /\ UNCHANGED lvt_writes

WriteId ==
    \E val \in {Bits(1)} :
        GuestWrite(Off("ID"), val, "Dword", FALSE) /\ UNCHANGED lvt_writes

WriteUnsupported ==
    \E offset \in UnsupportedOffsets :
        GuestWrite(offset, Bits(\h20), "Dword", FALSE) /\ UNCHANGED lvt_writes

\* The addresses the guest reads in the MMIO window (address_range:
\* DEFAULT_APIC_BASE up to DEFAULT_APIC_BASE + APIC_MMIO_SIZE), the first and
\* the last dword of each 16-byte register slot, and the MSRs of the x2APIC
\* range.
MmioAddrs ==
    {DEFAULT_APIC_BASE \cup Bits(a) :
        a \in {x \in 0..(APIC_MMIO_SIZE - 1) : x % 16 \in {0, 12}}}
MsrAddrs ==
    {Bits(m) : m \in X2APIC_MSE_REG_BASE..(X2APIC_MSE_REG_BASE + X2APIC_MSE_REG_SIZE - 1)}

\* The register indices the guest writes through the decoders: ID, LDR and ESR,
\* and the undecodable 0x00, 0x04, 0x29, 0x3A and 0xFF.
WrittenIndices == {\h00, \h02, \h04, \h0D, \h28, \h29, \h3A, \hFF}

MmioRead == \E addr \in MmioAddrs : mmio_handle_read(addr, "Dword")

MmioWrite ==
    \E i \in WrittenIndices, b \in {0, 12} :
        mmio_handle_write(DEFAULT_APIC_BASE \cup Bits(16 * i + b), "Dword",
                          Bits(\h01000001))

MsrRead == \E addr \in MsrAddrs : msr_handle_read(addr, "Dword")

MsrWrite ==
    \E i \in WrittenIndices :
        msr_handle_write(Bits(X2APIC_MSE_REG_BASE + i), "Dword", Bits(\h01000001))

\* A guest write of any divide configuration: the sixteen values of the low
\* nibble, alone and under set high bits.
DcrAnyVals == {Bits(k) : k \in 0..15} \cup {Bits(k) \cup (4..31) : k \in 0..15}
WriteDcrAny ==
    \E val \in DcrAnyVals :
        GuestWrite(Off("TimerDivConf"), val, "Dword", FALSE) /\ UNCHANGED lvt_writes

\* A 4-byte guest read of a register: handle_read.
ReadOffsets ==
    {Off(n) : n \in {"ID", "Version", "TPR", "APR", "PPR", "EOI", "RRR", "LDR",
                      "DFR", "SIVR", "ESR", "ICRLow", "ICRHi", "TimerInitCount",
                      "TimerCurCount", "TimerDivConf", "SelfIPI"} \cup LvtOffsets}
    \cup {BankOff("ISR", 1), BankOff("TMR", 7), BankOff("IRR", 0)}
ReadReg == \E offset \in ReadOffsets : RegRead("reg", {}, offset, "Dword")

\* A guest read of ICR_LO at 4 or 8 bytes, through the register interface or
\* through MSR 0x830.
ReadIcrLow ==
    \E width \in Widths :
        \/ RegRead("reg", {}, Off("ICRLow"), width)
        \/ msr_handle_read(Bits(X2APIC_MSE_REG_BASE + \h30), width)

\* The clock advances by one tick.
Tick ==
    /\ panic = ""
    /\ now < MaxTicks
    /\ now' = now + 1
    /\ last' = [NoEvent EXCEPT !.op = "tick"]
    /\ UNCHANGED <<regs, vapic_id, esr_pending, esr_firing, isrv, apic_base,
                   svr_last, lvt_last, virtual_timer, timers, next_token,
                   cancelled, injected, active_vcpus, vcpu_num, lvt_writes, panic>>

\* A callback that marks its timer as stopped when it runs.
timer_callback_stops(t) ==
    [t EXCEPT !.cancel_token = {}, !.deadline_ns = 0, !.last_start_ticks = 0]

\* The closure start_timer registers, as what running it leaves of the
\* ApicTimer: it captured vm_id, vcpu_id and vector by move and holds no
\* reference to the timer.
timer_callback(t) == t

\* The timer service runs a registered callback whose deadline has come
\* (the closure of ApicTimer::start_timer): inject_interrupt with the owner and
\* vector captured at arm time. The callback is one-shot.
TimerFire ==
    /\ panic = ""
    /\ \E c \in timers :
           /\ c.deadline <= now
           /\ timers' = timers \ {c}
           /\ injected' = Append(injected, [token |-> c.token, vcpu_id |-> c.vcpu_id,
                                            vector |-> c.vector, deadline |-> c.deadline])
    /\ virtual_timer' = timer_callback(virtual_timer)
    /\ last' = [NoEvent EXCEPT !.op = "fire"]
    /\ UNCHANGED <<regs, vapic_id, esr_pending, esr_firing, isrv, apic_base,
                   svr_last, lvt_last, now, next_token, cancelled,
                   active_vcpus, vcpu_num, lvt_writes, panic>>

Next ==
    \/ SendIpi
    \/ WriteWide
    \/ WriteLvtTimer
    \/ WriteLvt
    \/ WriteSvr
    \/ WriteIcrTimer
    \/ WriteDcr
    \/ WriteIcr
    \/ WriteEsr
    \/ WriteLdr
    \/ WriteDfr
    \/ WriteEoi
    \/ WriteId
    \/ WriteUnsupported
    \/ MmioRead
    \/ MmioWrite
    \/ MsrRead
    \/ MsrWrite
    \/ WriteDcrAny
    \/ ReadReg
    \/ ReadIcrLow
    \/ Tick
    \/ TimerFire

Spec == Init /\ [][Next]_vars

\* The timer and what drives it: LVT_TIMER, DCR, initial count, SVR, the clock.
NextTimer ==
    \/ WriteLvtTimer
    \/ WriteSvr
    \/ WriteIcrTimer
    \/ WriteDcr
    \/ Tick
    \/ TimerFire

SpecTimer == Init /\ [][NextTimer]_vars

\* The LVT registers and what masks them: the seven LVT writes, SVR, and the
\* initial count (so that a software-disable finds a started timer).
NextLvt ==
    \/ WriteLvt
    \/ WriteSvr
    \/ WriteIcrTimer

SpecLvt == Init /\ [][NextLvt]_vars

\* IPI dispatch and the error status register.
NextIpi ==
    \/ WriteIcr
    \/ WriteEsr
    \/ WriteLdr
    \/ WriteDfr
    \/ WriteId
    \/ WriteUnsupported

SpecIpi == Init /\ [][NextIpi]_vars

\* IPI destinations. No write arm of the crate stores ICR_HI outside x2APIC mode
\* (the CPU's APIC virtualization writes the page's ICR_HI), so the destination
\* field is seeded: APIC IDs 0, 1 (active), 2 (inactive), 64, and 0xFF.
SeedIcrHi == {{}, Bits(\h01000000), Bits(\h02000000), Bits(\h40000000), U32}

InitDest ==
    \E hi \in SeedIcrHi :
        /\ regs = [ZeroPage EXCEPT !.ICR_HI = hi]
        /\ vapic_id = 0
        /\ esr_pending = {}
        /\ esr_firing = 0
        /\ isrv = 0
        /\ apic_base = {}
        /\ svr_last = RESET_SPURIOUS_INTERRUPT_VECTOR
        /\ lvt_last = LocalVectorTable_default
        /\ virtual_timer = ApicTimer_new
        /\ now = 0
        /\ timers = {}
        /\ next_token = 0
        /\ cancelled = <<>>
        /\ injected = <<>>
        /\ active_vcpus = ActiveVcpus
        /\ vcpu_num = NumVcpus
        /\ lvt_writes = 0
        /\ last = NoEvent
        /\ panic = ""

NextDest ==
    \/ SendIpi
    \/ WriteLdr
    \/ WriteDfr

SpecDest == InitDest /\ [][NextDest]_vars

\* The accesses that depend on the APIC mode: ICR_LO at 4 and 8 bytes, IPIs
\* over the seeded destinations, and SelfIPI among the unsupported writes.
NextMode ==
    \/ SendIpi
    \/ WriteIcr
    \/ WriteUnsupported
    \/ ReadIcrLow

SpecMode == InitDest /\ [][NextMode]_vars

\* Access widths: writes at 2 and 8 bytes next to the 4-byte ones.
NextWidth ==
    \/ WriteWide
    \/ WriteIcr

SpecWidth == Init /\ [][NextWidth]_vars

\* Address decoding: the device-level handlers over the whole MMIO window and
\* the whole MSR range.
NextDecode ==
    \/ MmioRead
    \/ MmioWrite
    \/ MsrRead
    \/ MsrWrite

SpecDecode == Init /\ [][NextDecode]_vars

\* Guest reads, between writes that arm the timer or record an error, clock
\* ticks and timer expiries.
NextRead ==
    \/ ReadReg
    \/ WriteIcrTimer
    \/ WriteIcr
    \/ Tick
    \/ TimerFire

SpecRead == Init /\ [][NextRead]_vars

\* The divide configuration: every DCR value, with the timer armed in between.
NextDcr ==
    \/ WriteDcrAny
    \/ WriteIcrTimer

SpecDcr == Init /\ [][NextDcr]_vars

\* Interrupt servicing. No path of the crate sets an ISR or TMR bit, TPR or
\* isrv (the CPU's APIC virtualization and the tests do), so EOI is checked
\* from seeded servicing states: the vectors of InService are in service, isrv
\* is the highest of them, those of `level` are level-triggered, and PPR is
\* the priority of TPR and isrv.
SeedVectors == {5, 40, 72, 200}
SeedTprs == {{}, Bits(\h30), Bits(\hC8)}
BankBits(vs, i) == {v % 32 : v \in {w \in vs : w \div 32 = i}}
MaxOf(vs) == IF vs = {} THEN 0 ELSE CHOOSE v \in vs : \A w \in vs : w <= v

InitEoi ==
    \E InService \in SUBSET SeedVectors, tpr \in SeedTprs :
      \E level \in {{}, InService} :
        /\ regs = [ZeroPage EXCEPT
                     !.ISR = [i \in 0..7 |-> BankBits(InService, i)],
                     !.TMR = [i \in 0..7 |-> BankBits(level, i)],
                     !.TPR = tpr,
                     !.PPR = IF prio(ToNat(tpr)) >= prio(MaxOf(InService))
                             THEN tpr
                             ELSE Bits(MaxOf(InService)) \cap Bits(\hF0)]
        /\ isrv = MaxOf(InService)
        /\ vapic_id = 0
        /\ esr_pending = {}
        /\ esr_firing = 0
        /\ apic_base = {}
        /\ svr_last = RESET_SPURIOUS_INTERRUPT_VECTOR
        /\ lvt_last = LocalVectorTable_default
        /\ virtual_timer = ApicTimer_new
        /\ now = 0
        /\ timers = {}
        /\ next_token = 0
        /\ cancelled = <<>>
        /\ injected = <<>>
        /\ active_vcpus = ActiveVcpus
        /\ vcpu_num = NumVcpus
        /\ lvt_writes = 0
        /\ last = NoEvent
        /\ panic = ""

NextEoi ==
    \/ WriteEoi
    \/ WriteUnsupported

SpecEoi == InitEoi /\ [][NextEoi]_vars


\* ================================================================ claims

\* The last event was a guest write to the register `name`.
LastWrote(name) == last.op = "write" /\ last.offset = Off(name)

\* The last injection made by the timer callback.
LastInjected == injected[Len(injected)]

\* The callbacks run so far under the token of the last one.
InjectionsOfLast ==
    {i \in 1..Len(injected) : injected[i].token = LastInjected.token}

\* The interval the timer is armed with: initial_count << divide_shift, in ticks.
TimerDelta ==
    ToNat(virtual_timer.initial_count_register) * (2 ^ virtual_timer.divide_shift)

\* ---------------------------------------------------------------- C1

C2_OneShotFireStopsTimer ==
    (last.op = "fire" /\ timer_mode(virtual_timer) = "OneShot") =>
        /\ Cardinality(InjectionsOfLast) = 1
        /\ LastInjected.vcpu_id = vapic_id
        /\ ~is_started(virtual_timer)

\* ---------------------------------------------------------------- C3

\* C3: once the callback of a periodic timer has run, a callback is pending
\* again, one interval (initial_count << divide_shift) later, without any guest
\* write.
C3_PeriodicFireRearms ==
    (last.op = "fire" /\ is_periodic(virtual_timer)) =>
        \E c \in timers :
            c.deadline \in {LastInjected.deadline + TimerDelta, now + TimerDelta}

\* ---------------------------------------------------------------- C4

\* What a guest read of the LVT register `name` returns.
ReadLvt(name) == handle_read(Cur, Off(name), "Dword").value

\* Every one of the seven LVT registers reads with its mask bit (16) set.
AllLvtsReadMasked == \A n \in LvtOffsets : IsSet(ReadLvt(n), LvtMaskBit)

\* The last event was an SVR write that took the software-enable bit from 1 to 0.
LastDisabledApic ==
    /\ LastWrote("SIVR")
    /\ last.was_enabled
    /\ ~IsSet(last.val, APICSoftwareEnableDisable)

\* C4: after an SVR write that changes bit 8 from 1 to 0, the timer is not
\* started, no callback is pending, and each of the seven LVT registers reads
\* with bit 16 set.
C4_SoftwareDisableStopsAndMasks ==
    LastDisabledApic =>
        /\ last.ret = "Ok"
        /\ ~is_started(virtual_timer)
        /\ timers = {}
        /\ AllLvtsReadMasked

\* A software-disable has stopped a running timer, after the guest had written
\* LVT registers.
C4_DisabledWhileTimerRan ==
    /\ LastDisabledApic
    /\ last.was_started
    /\ lvt_writes = MaxLvtWrites
    /\ ReadLvt("LvtErr") # RESET_LVT_REG
    /\ ~is_started(virtual_timer)
    /\ AllLvtsReadMasked

\* ---------------------------------------------------------------- C5

\* C5: in every state where SVR bit 8 is 0, each of the seven LVT registers
\* reads with bit 16 set, also after an LVT write with bit 16 clear.
C5_DisabledApicReadsLvtsMasked ==
    ~IsSet(regs.SVR, APICSoftwareEnableDisable) => AllLvtsReadMasked

\* ---------------------------------------------------------------- C6

\* C6: after a guest write of x to LVT_TIMER made while the APIC is
\* software-enabled, LVT_TIMER reads x & 0x0007_10FF.
C6_EnabledTimerLvtWriteReadsBack ==
    (LastWrote("LvtTimer") /\ last.was_enabled) =>
        ReadLvt("LvtTimer") = last.val \cap Bits(\h000710FF)

\* ---------------------------------------------------------------- C7

\* The writable bits of each LVT register, as the claim lists them.
C7_Mask(name) ==
    CASE name = "LvtTimer" -> Bits(\h000710FF)
      [] name \in {"LvtLint0", "LvtLint1"} -> Bits(\h0001F7FF)
      [] name \in {"LvtCMCI", "LvtPmc", "LvtThermal"} -> Bits(\h000117FF)
      [] name = "LvtErr" -> Bits(\h000110FF)

InServiceVectors == {x \in 0..255 : (x % 32) \in regs.ISR[x \div 32]}

\* The last event was an EOI write that found a vector in service.
LastEoiRetired == LastWrote("EOI") /\ last.old_isrv # 0

\* PPR is the priority of TPR and isrv.
PprIsPriorityOfTprAndIsrv ==
    regs.PPR = IF prio(ToNat(regs.TPR)) >= prio(isrv)
               THEN regs.TPR
               ELSE Bits(isrv) \cap Bits(\hF0)

\* C8: after an EOI write with isrv = v # 0, ISR bit v is clear, isrv is the
\* highest bit index still set anywhere in ISR[0..7] (bank 0 included) or 0 when
\* none is set, and PPR has been recomputed from TPR and the new isrv.
C8_EoiRetiresHighestAndRescans ==
    LastEoiRetired =>
        /\ last.old_isrv \notin InServiceVectors
        /\ isrv = MaxOf(InServiceVectors)
        /\ PprIsPriorityOfTprAndIsrv

\* ---------------------------------------------------------------- C9

\* C9: in every state, PPR equals TPR when ((TPR >> 4) & 0xF) >=
\* ((isrv >> 4) & 0xF), and equals isrv & 0xF0 otherwise.
C9_PprInvariant == PprIsPriorityOfTprAndIsrv

\* An EOI has left a vector in service that outranks TPR.
C9_EoiLeftIsrvAboveTpr ==
    /\ LastEoiRetired
    /\ isrv # 0
    /\ prio(ToNat(regs.TPR)) < prio(isrv)
    /\ regs.PPR = Bits(isrv) \cap Bits(\hF0)
    /\ regs.PPR # Bits(isrv)

\* --------------------------------------------------------------- C10

\* The last event was an ICR write, at the width of the access mode, of a Fixed
\* IPI with a vector below 16.
LastSentIllegalVector ==
    /\ LastWrote("ICRLow")
    /\ (last.width = "Qword") = is_x2apic_enabled(Cur)
    /\ DeliveryModeOf(last.val) = "Fixed"
    /\ ReadField(last.val, 0, 8) < 16

\* C10: an ICR write with Fixed delivery mode and a vector below 16, whatever
\* its shorthand and destination, delivers to no vCPU, returns success, and
\* adds Send Illegal Vector (bit 5) to esr_pending while ESR reads as before.
C10_IllegalVectorIsSwallowed ==
    LastSentIllegalVector =>
        /\ last.ret = "Ok"
        /\ panic = ""
        /\ last.dmask = {}
        /\ esr_pending = last.old_esr_pending \cup SendIllegalVector
        /\ handle_read(Cur, Off("ESR"), "Dword").value = last.old_ESR

\* An illegal vector was sent while ESR already read as Send Illegal Vector and
\* nothing was pending.
C10_IllegalVectorWhileEsrShown ==
    /\ LastSentIllegalVector
    /\ last.old_esr_pending = {}
    /\ last.old_ESR = SendIllegalVector
    /\ esr_pending = SendIllegalVector
    /\ regs.ESR = SendIllegalVector

\* --------------------------------------------------------------- C11

\* What a guest read of ESR returns.
ReadEsr == handle_read(Cur, Off("ESR"), "Dword").value

\* C11: a guest write to ESR, whatever the value written, makes ESR read
\* exactly the error bits accumulated since the previous ESR write and zeroes
\* the accumulator; so a second consecutive ESR write makes ESR read 0.
C11_EsrWriteSnapshotsPending ==
    LastWrote("ESR") =>
        /\ last.ret = "Ok"
        /\ ReadEsr = last.old_esr_pending
        /\ esr_pending = {}

\* An ESR write of all ones has made the pending Send Illegal Vector readable.
C11_EsrShowsIllegalVector ==
    /\ LastWrote("ESR")
    /\ last.val = U32
    /\ last.old_esr_pending = SendIllegalVector
    /\ ReadEsr = SendIllegalVector
    /\ esr_pending = {}

\* --------------------------------------------------------------- C12

\* The last event was a 4-byte ICR_LO write in xAPIC mode.
LastIcrWrite ==
    /\ LastWrote("ICRLow")
    /\ last.width = "Dword"
    /\ ~is_x2apic_enabled(Cur)

\* The fields of the IPI last sent: shorthand, delivery mode, vector,
\* destination-mode bit, and the xAPIC destination (ICR_HI bits 24..31).
IcrShorthand == ReadField(last.val, 18, 2)
IcrMode == DeliveryModeOf(last.val)
IcrVector == ReadField(last.val, 0, 8)
IcrDestModeBit == IsSet(last.val, 11)
IcrDest == ReadField(regs.ICR_HI, 24, 8)

\* The vCPUs the last ICR write selected for delivery: those the delivery loop
\* of write_icr hands to set_intr, inject_nmi or process_init_sipi.
Selected == last.dmask \cap (0..(vcpu_num - 1))

LogicalMatch(ldr, dfr, dest) ==
    CASE ReadField(dfr, 28, 4) = 15 ->
           Bits(ReadField(ldr, 24, 8)) \cap Bits(dest % 256) # {}
      [] ReadField(dfr, 28, 4) = 0 ->
           /\ ReadField(ldr, 28, 4) = (dest \div 16) % 16
           /\ Bits(ReadField(ldr, 24, 4)) \cap Bits(dest % 16) # {}
      [] OTHER -> FALSE

\* The LDR and DFR of vCPU i: those of this vLAPIC for the issuer; every other
\* vCPU uses the flat model with logical ID bit i.
LdrOf(i) == IF i = vapic_id THEN regs.LDR ELSE {24 + i}
DfrOf(i) == IF i = vapic_id THEN regs.DFR ELSE U32

\* The active vCPUs whose own LDR matches the destination under their own DFR.
LogicalTargets ==
    {i \in active_vcpus : LogicalMatch(LdrOf(i), DfrOf(i), IcrDest)}

\* The last event was a Fixed IPI with a legal vector, no shorthand and a
\* destination other than the broadcast ID.
LastAddressedIpi ==
    /\ LastIcrWrite
    /\ IcrMode = "Fixed"
    /\ IcrVector >= 16
    /\ IcrShorthand = 0
    /\ IcrDest # XAPIC_BROADCAST_DEST_ID

\* C13: for a No-Shorthand, non-broadcast ICR write, ICR_LO bit 11 selects the
\* addressing: 0 (physical) selects only the vCPU whose APIC ID equals dest,
\* 1 (logical) selects vCPUs by LDR/DFR matching against dest.
C13_DestModeBitSelectsAddressing ==
    LastAddressedIpi =>
        IF ~IcrDestModeBit
        THEN /\ Selected \subseteq {IcrDest}
             /\ IcrDest \in active_vcpus => Selected = {IcrDest}
        ELSE Selected = LogicalTargets

\* --------------------------------------------------------------- C14

\* The last IPI was resolved by logical matching: write_icr takes the logical
\* branch of calculate_dest_no_shorthand when its is_phys is false, which it
\* computes as ICR_LO bit 11 being 0.
LastResolvedLogically == LastAddressedIpi /\ ~IcrDestModeBit

\* C14: in logical destination mode an active vCPU is selected iff that
\* vCPU's own LDR matches dest under its own DFR, so two active vCPUs with
\* different LDR values can be selected differently by one IPI.
C14_LogicalModeMatchesEachTarget ==
    LastResolvedLogically => Selected = LogicalTargets

\* --------------------------------------------------------------- C15

\* The last IPI was resolved by physical addressing: write_icr takes the
\* physical branch of calculate_dest_no_shorthand when its is_phys is true.
LastResolvedPhysically == LastAddressedIpi /\ IcrDestModeBit

\* C15: every vCPU to which an ICR write delivers belongs to the VM's active
\* vCPUs; and when a physical destination names no active vCPU (an inactive
\* ID, or any dest >= 64), nobody receives the interrupt.
C15_OnlyActiveVcpusSelected ==
    LastIcrWrite =>
        /\ Selected \subseteq active_vcpus
        /\ (LastResolvedPhysically /\ IcrDest \notin active_vcpus) =>
               (Selected = {} /\ panic = "")

\* --------------------------------------------------------------- C16

\* The last event was an IPI with shorthand Self or All-Including-Self and
\* delivery mode NMI, INIT or Start-Up.
LastSentInvalidCombination ==
    /\ LastIcrWrite
    /\ IcrShorthand \in {1, 2}
    /\ IcrMode \in {"NMI", "INIT", "StartUp"}

\* C16: an ICR write with shorthand Self or All-Including-Self and delivery
\* mode NMI, INIT or Start-Up is silently dropped: no vCPU is selected, no
\* error bit is recorded, and success is returned.
C16_InvalidCombinationDropped ==
    LastSentInvalidCombination =>
        /\ last.ret = "Ok"
        /\ panic = ""
        /\ last.dmask = {}
        /\ esr_pending = last.old_esr_pending
        /\ ReadEsr = last.old_ESR

\* An INIT to All-Including-Self was dropped although vCPUs are active.
C16_InitToAllDropped ==
    /\ LastSentInvalidCombination
    /\ IcrShorthand = 2
    /\ IcrMode = "INIT"
    /\ active_vcpus # {}
    /\ Selected = {}
    /\ panic = ""

\* --------------------------------------------------------------- C17

\* C17: every guest access completes by returning success or an error value to
\* its caller; none aborts the handler, in particular not an EOI write with a
\* vector in service, nor an ICR write that selects a vCPU with Fixed, NMI,
\* INIT or Start-Up delivery, nor any DCR_TIMER value.
C17_NoAccessAborts == panic = ""

\* --------------------------------------------------------------- C18

\* The registers a guest reads.
ReadableOffsets ==
    {Off(n) : n \in {"ID", "Version", "TPR", "PPR", "LDR", "DFR", "SIVR", "ESR",
                     "ICRLow", "ICRHi", "TimerInitCount", "TimerCurCount",
                     "TimerDivConf"} \cup LvtOffsets}

\* C18: in xAPIC mode a guest read or write whose width is not 4 bytes
\* returns InvalidInput, for every register and not only for ICR_LO.
C18_NonDwordAccessRefused ==
    (last.op = "write" /\ last.width # "Dword" /\ ~is_x2apic_enabled(Cur)) =>
        /\ last.ret = "InvalidInput"
        /\ \A offset \in ReadableOffsets :
               handle_read(Cur, offset, last.width).ret = "InvalidInput"

\* --------------------------------------------------------------- C19

\* The registers without write semantics, and those without read semantics.
NoWriteSemantics ==
    {Off(n) : n \in {"Version", "APR", "PPR", "RRR", "TimerCurCount", "SelfIPI"}}
    \cup {BankOff(b, i) : b \in {"ISR", "TMR", "IRR"}, i \in 0..7}
NoReadSemantics == {Off("APR"), Off("RRR"), Off("SelfIPI")}

\* A step that writes a register without write semantics in xAPIC mode is
\* refused and changes no register, LVT shadow, timer or error state.
UnsupportedWriteRefused ==
    (last'.op = "write" /\ last'.offset \in NoWriteSemantics
        /\ ~is_x2apic_enabled(Cur)) =>
        /\ last'.ret = "InvalidInput"
        /\ UNCHANGED <<regs, lvt_last, svr_last, virtual_timer, timers,
                       next_token, cancelled, esr_pending, esr_firing, isrv,
                       apic_base, panic>>

\* C19: a guest write to SelfIPI in xAPIC mode, or to a register without
\* write semantics (Version, APR, PPR, RRR, the ISR/TMR/IRR banks,
\* TimerCurCount), returns InvalidInput and leaves every register, the LVT
\* shadows and the timer unchanged; a guest read of a register without read
\* semantics returns 0 with success.
C19_UnsupportedAccesses ==
    /\ [][UnsupportedWriteRefused]_vars
    /\ [](\A offset \in NoReadSemantics :
            /\ handle_read(Cur, offset, "Dword").ret = "Ok"
            /\ handle_read(Cur, offset, "Dword").value = {})

\* A SelfIPI write was refused in a state where LDR, DFR and ESR had been
\* written.
C19_SelfIpiRefused ==
    /\ LastWrote("SelfIPI")
    /\ last.ret = "InvalidInput"
    /\ regs.SELF_IPI = {}
    /\ regs.LDR # {}
    /\ regs.DFR # {}
    /\ regs.ESR # {}

\* --------------------------------------------------------------- C20

\* The last guest access was a 4-byte write to TPR or to ICR_HI.
LastWroteTprOrIcrHi ==
    /\ last.op = "write"
    /\ last.width = "Dword"
    /\ last.offset \in {Off("TPR"), Off("ICRHi")}

\* C20: a 4-byte guest write to TPR or to ICR_HI in xAPIC mode returns success
\* and the next read of that register returns the written value.
C20_TprAndIcrHiWritable ==
    (LastWroteTprOrIcrHi /\ ~is_x2apic_enabled(Cur)) =>
        /\ last.ret = "Ok"
        /\ handle_read(Cur, last.offset, "Dword").ret = "Ok"
        /\ handle_read(Cur, last.offset, "Dword").value = last.val \cap U32

\* --------------------------------------------------------------- C21

\* The register index of an MMIO address, (a & 0xFFF) >> 4, and of an MSR,
\* m - 0x800.
MmioIndex(addr) == ToNat(addr \cap (0..11)) \div 16
MsrIndex(addr) == ToNat(addr) - \h800

\* The last access came through a decoder; the index its address carries.
LastThroughDecoder == last.via \in {"mmio", "msr"}
LastIndex == IF last.via = "mmio" THEN MmioIndex(last.addr) ELSE MsrIndex(last.addr)

\* The indices of the decode table.
ValidIndices == {i \in 0..255 : ApicRegOffset_from(i).name # "panic"}

\* C21: the MMIO decoder maps address a to the identity of index
\* (a & 0xFFF) >> 4 and the MSR decoder maps MSR m to the identity of index
\* m - 0x800 through one table: the identity an access decoded to is the one
\* every address 0xFEE0_0000 + 16*i + 0..15 and MSR 0x800 + i decode to, no
\* other valid index decodes to it, and 0x10..0x17, 0x18..0x1F, 0x20..0x27 and
\* 0x35 are ISR(i), TMR(i), IRR(i) and LvtLint0.
C21_DecodersShareOneTable ==
    (LastThroughDecoder /\ last.offset.name # "panic") =>
        /\ \A b \in 0..15 :
               xapic_mmio_access_reg_offset(
                   DEFAULT_APIC_BASE \cup Bits(16 * LastIndex + b)) = last.offset
        /\ x2apic_msr_access_reg(Bits(\h800 + LastIndex)) = last.offset
        /\ \A j \in ValidIndices \ {LastIndex} : ApicRegOffset_from(j) # last.offset
        /\ (LastIndex \in \h10..\h17 => last.offset = BankOff("ISR", LastIndex - \h10))
        /\ (LastIndex \in \h18..\h1F => last.offset = BankOff("TMR", LastIndex - \h18))
        /\ (LastIndex \in \h20..\h27 => last.offset = BankOff("IRR", LastIndex - \h20))
        /\ (LastIndex = \h35 => last.offset = Off("LvtLint0"))

\* The guest read 0xFEE0_035C, which decoded to LvtLint0.
C21_Lint0ReadAtLastDword ==
    /\ last.op = "read"
    /\ last.via = "mmio"
    /\ last.addr = DEFAULT_APIC_BASE \cup Bits(\h35C)
    /\ last.offset = Off("LvtLint0")
    /\ last.val = RESET_LVT_REG

\* --------------------------------------------------------------- C22

\* The last access came through a decoder at an index outside the table.
LastUndecodable == LastThroughDecoder /\ LastIndex \notin ValidIndices

\* C22: an in-window MMIO address or MSR whose register index is not in the
\* decode table makes the access report an error to the caller instead of
\* aborting.
C22_UnknownIndexReportsError ==
    LastUndecodable =>
        /\ panic = ""
        /\ last.ret \in {"InvalidInput", "InvalidData", "BadState"}

\* --------------------------------------------------------------- C23

\* The vLAPIC is as VirtualApicRegs::new left it.
AsConstructed ==
    /\ regs = ZeroPage
    /\ esr_pending = {}
    /\ isrv = 0
    /\ svr_last = RESET_SPURIOUS_INTERRUPT_VECTOR
    /\ lvt_last = LocalVectorTable_default
    /\ virtual_timer = ApicTimer_new
    /\ timers = {}

\* The value a register reads as after reset.
ResetValue(offset) ==
    IF offset.name \in LvtOffsets THEN RESET_LVT_REG
    ELSE IF offset.name = "SIVR" THEN RESET_SPURIOUS_INTERRUPT_VECTOR
    ELSE {}

\* C23: immediately after construction a guest read returns 0x0001_0000 for
\* each of the seven LVT registers, 0x0000_00FF for SVR and 0 for every other
\* register; isrv is 0 and the timer is not started, masked, one-shot, with
\* vector 0, initial count 0 and DCR 0.
C23_ResetValuesRead ==
    (last.op = "read" /\ AsConstructed) =>
        /\ last.ret = "Ok"
        /\ last.val = ResetValue(last.offset)
        /\ isrv = 0
        /\ ~is_started(virtual_timer)
        /\ is_masked(virtual_timer)
        /\ timer_mode(virtual_timer) = "OneShot"
        /\ vector(virtual_timer) = 0
        /\ virtual_timer.initial_count_register = {}
        /\ virtual_timer.divide_configuration_register = {}

\* --------------------------------------------------------------- C24

\* The state outside the page that a register write could disturb.
OutsidePage ==
    <<lvt_last, svr_last, virtual_timer, timers, next_token, cancelled,
      esr_pending, esr_firing, isrv, apic_base, panic>>

\* A step that writes LDR stores the written value's bits 24..31, one that
\* writes DFR stores its bits 28..31 over 0x0FFF_FFFF; all else is unchanged.
LdrDfrWriteStored ==
    /\ (last'.op = "write" /\ last'.offset = Off("LDR")) =>
           /\ last'.ret = "Ok"
           /\ regs' = [regs EXCEPT !.LDR = last'.val \cap FieldMask(24, 8)]
           /\ UNCHANGED OutsidePage
    /\ (last'.op = "write" /\ last'.offset = Off("DFR")) =>
           /\ last'.ret = "Ok"
           /\ regs' = [regs EXCEPT
                         !.DFR = (last'.val \cap FieldMask(28, 4)) \cup Bits(\h0FFFFFFF)]
           /\ UNCHANGED OutsidePage

\* C24: after a guest write of x to LDR, reading LDR returns x & 0xFF00_0000;
\* after a guest write of x to DFR, reading DFR returns
\* (x & 0xF000_0000) | 0x0FFF_FFFF; neither write changes any other register.
C24_LdrDfrMasked ==
    /\ [][LdrDfrWriteStored]_vars
    /\ [](LastWrote("LDR") =>
            handle_read(Cur, Off("LDR"), "Dword").value = last.val \cap FieldMask(24, 8))
    /\ [](LastWrote("DFR") =>
            handle_read(Cur, Off("DFR"), "Dword").value
                = (last.val \cap FieldMask(28, 4)) \cup Bits(\h0FFFFFFF))

\* LDR was written with 0x0100_0001, whose bit 0 is reserved, after DFR had
\* been set to the invalid model 0x5.
C24_LdrReservedBitsDropped ==
    /\ LastWrote("LDR")
    /\ last.val = Bits(\h01000001)
    /\ regs.LDR = Bits(\h01000000)
    /\ regs.DFR = Bits(\h5FFFFFFF)

\* --------------------------------------------------------------- C25

\* What a guest read of the ID register returns.
ReadId == handle_read(Cur, Off("ID"), "Dword").value

\* A step that writes the ID register succeeds and changes nothing.
IdWriteIgnored ==
    (last'.op = "write" /\ last'.offset = Off("ID")) =>
        /\ last'.ret = "Ok"
        /\ UNCHANGED regs
        /\ UNCHANGED OutsidePage

\* C25: a guest write of any value to the ID register returns success and
\* leaves the ID register, and all other state, unchanged; over every sequence
\* of guest accesses the value read from ID never changes.
C25_IdReadOnly ==
    /\ [][IdWriteIgnored]_vars
    /\ [][ReadId' = ReadId]_vars

\* The guest wrote 1 to the ID register after it had set LDR; ID still reads 0.
C25_IdWriteLeftIdZero ==
    /\ LastWrote("ID")
    /\ last.val = Bits(1)
    /\ last.ret = "Ok"
    /\ regs.LDR # {}
    /\ ReadId = {}

\* --------------------------------------------------------------- C26

\* A step that reads a register other than EOI changes no vLAPIC state.
ReadChangesNothing ==
    (last'.op = "read" /\ last'.offset.name # "EOI") =>
        /\ UNCHANGED regs
        /\ UNCHANGED OutsidePage
        /\ UNCHANGED <<now, injected>>

\* Two reads of one register in consecutive steps return the same.
RereadReturnsSame ==
    (last.op = "read" /\ last'.op = "read" /\ last'.offset = last.offset
        /\ last'.width = last.width) =>
        /\ last'.ret = last.ret
        /\ last'.val = last.val

\* C26: a guest read of any register other than EOI changes no vLAPIC state
\* (page registers, LVT shadows, isrv, pending errors, timer state); two
\* consecutive reads of the same register with no write, timer event or clock
\* advance in between return the same value.
C26_ReadsHaveNoEffect ==
    /\ [][ReadChangesNothing]_vars
    /\ [][RereadReturnsSame]_vars

\* The guest read ESR while an error was pending and the timer was running, one
\* tick after it was armed.
C26_EsrReadWithErrorPending ==
    /\ last.op = "read"
    /\ last.offset = Off("ESR")
    /\ esr_pending # {}
    /\ is_started(virtual_timer)
    /\ now = 1

\* --------------------------------------------------------------- C27

\* The divide shift of each masked divide configuration.
DivideShiftTable ==
    [v \in {0, 1, 2, 3, 8, 9, 10, 11} |->
        CASE v = 0 -> 1 [] v = 1 -> 2 [] v = 2 -> 3 [] v = 3 -> 4
          [] v = 8 -> 5 [] v = 9 -> 6 [] v = 10 -> 7 [] v = 11 -> 0]

\* C27: after write_dcr(x) for any 32-bit x, read_dcr() is x & 0b1011 and
\* divide_shift is given by the table 0000->1, 0001->2, 0010->3, 0011->4,
\* 1000->5, 1001->6, 1010->7, 1011->0 applied to the masked value, so it is
\* always in 0..7.
C27_DcrMaskedAndShiftFromTable ==
    /\ virtual_timer.divide_shift \in 0..7
    /\ LastWrote("TimerDivConf") =>
           /\ panic = ""
           /\ last.ret = "Ok"
           /\ timer_read_dcr(virtual_timer) = last.val \cap Bits(\b1011)
           /\ ToNat(last.val \cap Bits(\b1011)) \in DOMAIN DivideShiftTable
           /\ virtual_timer.divide_shift
                  = DivideShiftTable[ToNat(last.val \cap Bits(\b1011))]

\* The guest wrote 0xFFFF_FFFE to DCR: the timer holds 0b1010, shift 7.
C27_AllOnesButBit0DividesBy128 ==
    /\ LastWrote("TimerDivConf")
    /\ last.val = U32 \ {0}
    /\ timer_read_dcr(virtual_timer) = Bits(\b1010)
    /\ virtual_timer.divide_shift = 7

\* --------------------------------------------------------------- C28

\* What a guest read of the Current Count register returns now.
ReadCcr == handle_read(Cur, Off("TimerCurCount"), "Dword")

\* C28: a read of the Current Count register returns 0 whenever the timer is
\* not started; while it is started it returns the time remaining to the
\* deadline in ticks, shifted right by divide_shift, which is never greater
\* than the initial count and is 0 (saturating) once the current time has
\* reached or passed the deadline.
C28_CurrentCountBounded ==
    /\ ReadCcr.ret = "Ok"
    /\ ~is_started(virtual_timer) => (~ReadCcr.wrapped /\ ReadCcr.value = {})
    /\ is_started(virtual_timer) =>
           /\ ~ReadCcr.wrapped
           /\ ToNat(ReadCcr.value) <= ToNat(virtual_timer.initial_count_register)
           /\ (ticks_to_nanos(now) >= virtual_timer.deadline_ns => ReadCcr.value = {})

\* --------------------------------------------------------------- C29

\* LVT_TIMER selects the TSC-deadline mode.
TscDeadlineSelected == vlapic_timer_mode(Cur) = "TSCDeadline"

\* What a guest read of the initial-count register returns now.
ReadIcrTimer == handle_read(Cur, Off("TimerInitCount"), "Dword")

\* A write to the initial-count register made in TSC-deadline mode succeeds and
\* changes neither the register nor the timer: nothing is armed or cancelled.
TscDeadlineIgnoresIcrWrite ==
    (TscDeadlineSelected /\ last'.op = "write"
        /\ last'.offset = Off("TimerInitCount")) =>
        /\ last'.ret = "Ok"
        /\ UNCHANGED regs
        /\ UNCHANGED <<virtual_timer, timers, next_token, cancelled>>

RunningTimerUndisturbed ==
    (is_started(virtual_timer) /\ last'.op = "write"
        /\ last'.offset \in {Off("LvtTimer"), Off("TimerDivConf")}) =>
        /\ virtual_timer'.deadline_ns = virtual_timer.deadline_ns
        /\ virtual_timer'.last_start_ticks = virtual_timer.last_start_ticks
        /\ virtual_timer'.cancel_token = virtual_timer.cancel_token
        /\ UNCHANGED <<timers, next_token, cancelled, injected>>

\* A step that arms the timer registers a callback with the vector LVT_TIMER
\* holds and a deadline by the divide configuration DCR_TIMER holds.
ArmUsesCurrentLvtAndDcr ==
    \A c \in timers' \ timers :
        /\ c.vector = ReadField(regs'.LVT_TIMER, 0, 8)
        /\ c.deadline = now + ToNat(regs'.ICR_TIMER)
               * (2 ^ DivideShiftTable[ToNat(regs'.DCR_TIMER \cap Bits(\b1011))])

\* A step that injects runs a registered callback and injects its vector.
ExpiryInjectsArmedVector ==
    Len(injected') > Len(injected) =>
        \E c \in timers :
            /\ timers' = timers \ {c}
            /\ injected' = Append(injected, injected'[Len(injected')])
            /\ injected'[Len(injected')].vector = c.vector
            /\ injected'[Len(injected')].token = c.token

C31_MaskedExpiryInjectsNothing ==
    last.op = "fire" =>
        /\ ~is_masked(virtual_timer)
        /\ ~IsSet(ReadLvt("LvtTimer"), LvtMaskBit)

\* --------------------------------------------------------------- C32

\* C32: the delivery-status bit (bit 12) of the LVT Timer register always
\* reads 0, whatever value the guest has written to LVT_TIMER: in the guest's
\* read of the register and in the timer's read_lvt().
C32_DeliveryStatusReadsZero ==
    /\ ~IsSet(ReadLvt("LvtTimer"), 12)
    /\ ~IsSet(timer_read_lvt(virtual_timer), 12)

\* --------------------------------------------------------------- C33

\* The last write set the software-enable bit of SVR, which was clear.
LastEnabledApic ==
    /\ LastWrote("SIVR")
    /\ ~last.was_enabled
    /\ IsSet(regs.SVR, APICSoftwareEnableDisable)

\* C33: on an SVR write that changes the software-enable bit from 0 to 1, if
\* LVT_TIMER is in periodic mode and the initial count is nonzero the timer is
\* armed after the write (also when an earlier software-disable had stopped
\* it); if LVT_TIMER is not in periodic mode the timer's armed state is
\* unchanged.
C33_EnableRearmsPeriodicTimer ==
    LastEnabledApic =>
        /\ last.ret = "Ok"
        /\ (is_periodic(virtual_timer)
               /\ virtual_timer.initial_count_register # {})
             => is_started(virtual_timer)
        /\ ~is_periodic(virtual_timer)
             => (is_started(virtual_timer) <=> last.was_started)

\* --------------------------------------------------------------- C34

\* Vector v is level-triggered: its TMR bit is set.
LevelTriggered(v) == (v % 32) \in regs.TMR[v \div 32]

\* C34: on an EOI write with isrv = v # 0, if TMR bit v is set exactly one
\* level-triggered EOI broadcast for v is emitted to the I/O APIC, and if it is
\* clear none is. (process_eoi leaves TMR alone; the broadcast is the site
\* vioapic_broadcast_eoi, which the handler has to get past to have emitted it.)
C34_LevelEoiBroadcastOnce ==
    (LastWrote("EOI") /\ last.old_isrv # 0) =>
        IF LevelTriggered(last.old_isrv)
        THEN panic = ""
        ELSE panic # "vioapic_broadcast_eoi"

\* --------------------------------------------------------------- C35

\* A step that writes EOI while isrv is 0 succeeds and changes nothing.
IdleEoiIgnored ==
    (isrv = 0 /\ last'.op = "write" /\ last'.offset = Off("EOI")) =>
        /\ last'.ret = "Ok"
        /\ UNCHANGED regs
        /\ UNCHANGED OutsidePage

\* C35: an EOI write while isrv = 0 is a no-op: it returns success, changes no
\* ISR or TMR bit, leaves isrv, PPR and all other state unchanged, and emits no
\* EOI broadcast.
C35_EoiWithoutServiceIsNoOp == [][IdleEoiIgnored]_vars

\* The guest wrote EOI with nothing in service and TPR = 0x30.
C35_IdleEoiKeptPpr ==
    /\ LastWrote("EOI")
    /\ last.old_isrv = 0
    /\ last.ret = "Ok"
    /\ panic = ""
    /\ isrv = 0
    /\ regs.TPR = Bits(\h30)
    /\ regs.PPR = Bits(\h30)

\* --------------------------------------------------------------- C36

\* A step in which a callback fires: one registered callback is run, it passes
\* its own owner and vector to inject_interrupt once, and nothing else moves.
FireOnlyInjects ==
    last'.op = "fire" =>
        /\ \E c \in timers :
               /\ c.deadline <= now
               /\ timers' = timers \ {c}
               /\ injected' = Append(injected,
                      [token |-> c.token, vcpu_id |-> c.vcpu_id,
                       vector |-> c.vector, deadline |-> c.deadline])
        /\ UNCHANGED virtual_timer
        /\ UNCHANGED regs
        /\ UNCHANGED <<vapic_id, esr_pending, esr_firing, isrv, apic_base,
                       svr_last, lvt_last, now, next_token, cancelled,
                       active_vcpus, vcpu_num, panic>>

C37_CountNonzeroIffTokenPresent ==
    (virtual_timer.initial_count_register # {})
        <=> (virtual_timer.cancel_token # {})

\* --------------------------------------------------------------- C38

\* C38: at most one registered timer callback has neither fired nor been
\* cancelled, and each token returned by register_timer is passed to
\* cancel_timer at most once.
C38_OneLiveCallbackOneCancelPerToken ==
    /\ Cardinality(timers) <= 1
    /\ \A i, j \in 1..Len(cancelled) : cancelled[i] = cancelled[j] => i = j
    /\ \A i \in 1..Len(cancelled) : cancelled[i] < next_token

\* The timer was armed twice: the first callback fired and its token was
\* cancelled afterwards, by the write that armed the second, which is live.
C38_RearmedAfterExpiry ==
    /\ Len(cancelled) = 1
    /\ Len(injected) = 1
    /\ injected[1].token = cancelled[1]
    /\ Cardinality(timers) = 1
    /\ \A c \in timers : c.token # cancelled[1] /\ virtual_timer.cancel_token = {c.token}

\* --------------------------------------------------------------- C39

\* The accesses that x2APIC mode alone accepts are refused.
X2apicAccessesRefused ==
    /\ LastWrote("SelfIPI") => last.ret = "InvalidInput"
    /\ (last.op \in {"read", "write"} /\ last.offset = Off("ICRLow")
            /\ last.width = "Qword")
         => last.ret = "InvalidInput"

\* A 4-byte ICR_LO write that gets as far as calculate_dest computes the
\* destination set from ICR_HI bits [24..32], 0xFF being the broadcast.
IpiDestinationFromIcrHi ==
    LET lo == last'.val \ {12}
        dest == ReadField(regs.ICR_HI, 24, 8)
        d == calculate_dest(Cur, ReadField(lo, 18, 2), dest = \hFF, dest,
                            IsSet(lo, 11), FALSE, FALSE)
    IN  (/\ last'.op = "write"
         /\ last'.offset = Off("ICRLow")
         /\ last'.width = "Dword"
         /\ ~(DeliveryModeOf(lo) = "Fixed" /\ ReadField(lo, 0, 8) < 16)
         /\ ~(ReadField(lo, 18, 2) \in {1, 2}
                /\ DeliveryModeOf(lo) \in {"NMI", "INIT", "StartUp"})
         /\ panic' # "shift overflow"
         /\ d.ret = "Ok")
        => last'.dmask = d.dmask

\* C39: no guest access changes the APIC base, so is_x2apic_enabled() is false
\* in every reachable state: every SelfIPI write and every 8-byte ICR_LO read
\* or write returns InvalidInput, and the IPI destination is always taken from
\* ICR_HI bits [24..32], with 0xFF being the broadcast.
C39_X2apicNeverEnabled ==
    /\ [][apic_base' = apic_base]_vars
    /\ [](~is_x2apic_enabled(Cur))
    /\ []X2apicAccessesRefused
    /\ [][IpiDestinationFromIcrHi]_vars

\* With ICR_HI all ones (destination field 0xFF) the Fixed IPI of vector 0x30
\* selected every active vCPU.
C39_BroadcastByXapicField ==
    /\ LastWrote("ICRLow")
    /\ last.val = Bits(\h30)
    /\ regs.ICR_HI = U32
    /\ last.dmask = active_vcpus
    /\ active_vcpus # {}
    /\ ~is_x2apic_enabled(Cur)

====
